---- MODULE Spec2Model ----
(***************************************************************************)
(* MediExplain: the defensive JSON extractor _safe_extract_json of the     *)
(* generation bots (src/core/*_bot.py) and the bounded retry loop that the *)
(* generate_*_llm functions wrap around "completion call, then extract".   *)
(*                                                                         *)
(* A text is a sequence of characters; a character is a one-element TLA+   *)
(* string, except for the control characters, which carry a name.          *)
(***************************************************************************)
EXTENDS Integers, Sequences, FiniteSets, TLC

\* ------------------------------------------------------------------ characters
LBRACE == "{"
RBRACE == "}"
LBRACK == "["
RBRACK == "]"
QT     == "\""
BSL    == "\\"
BT     == "BACKTICK"
COMMA  == ","
COLON  == ":"
SP     == " "
NUL    == "NUL"
BSP    == "BS"
TAB    == "\t"
LF     == "\n"
FF     == "\f"
CR     == "\r"
DEL    == "DEL"

\* the class of the control-character regex: 0x00-0x1f and 0x7f (the named
\* characters stand for the class; the others behave like NUL)
ControlChars == {NUL, BSP, TAB, LF, FF, CR, DEL}

\* what str.strip() and the regex class \s treat as whitespace
PyWhitespace == {SP, TAB, LF, FF, CR}

\* what the JSON decoder skips between tokens (its WHITESPACE pattern)
JsonWhitespace == {SP, TAB, LF, CR}

\* the characters the negative lookahead of the escape regex protects
LegalEscapeNext == {QT, BSL, "/", "b", "f", "n", "r", "t", "u"}

Digits == {"0", "1", "2", "3", "4", "5", "6", "7", "8", "9"}

HexDigits == Digits \cup {"a", "b", "c", "d", "e", "f", "A", "B", "C", "D", "E", "F"}

\* ------------------------------------------------------------ string helpers
StartsWith(s, pat) == Len(s) >= Len(pat) /\ SubSeq(s, 1, Len(pat)) = pat

\* str.replace(old, new): left to right, non-overlapping
RECURSIVE Replace(_, _, _)
Replace(s, old, new) ==
    IF s = <<>> THEN <<>>
    ELSE IF StartsWith(s, old)
         THEN new \o Replace(SubSeq(s, Len(old) + 1, Len(s)), old, new)
         ELSE <<Head(s)>> \o Replace(Tail(s), old, new)

RECURSIVE LStrip(_)
LStrip(s) == IF s # <<>> /\ Head(s) \in PyWhitespace THEN LStrip(Tail(s)) ELSE s

RECURSIVE RStrip(_)
RStrip(s) ==
    IF s # <<>> /\ s[Len(s)] \in PyWhitespace
    THEN RStrip(SubSeq(s, 1, Len(s) - 1))
    ELSE s

\* str.strip()
Strip(s) == RStrip(LStrip(s))

\* first index >= i whose character is not in ws (Len(s)+1 when there is none)
RECURSIVE SkipWs(_, _, _)
SkipWs(s, i, ws) == IF i <= Len(s) /\ s[i] \in ws THEN SkipWs(s, i + 1, ws) ELSE i

Min(S) == CHOOSE x \in S : \A y \in S : x <= y
Max(S) == CHOOSE x \in S : \A y \in S : x >= y

\* ------------------------------------------------- steps of _safe_extract_json
FenceJson == <<BT, BT, BT, "j", "s", "o", "n">>
Fence     == <<BT, BT, BT>>

\* mutant: the fenced block is removed as a whole, from the first fence to the
\* end of the last one, contents included
StripFences_WholeBlock(text) ==
    LET at == {i \in 1..Len(text) : StartsWith(SubSeq(text, i, Len(text)), Fence)}
    IN  IF Cardinality(at) < 2
        THEN Strip(Replace(Replace(text, FenceJson, <<>>), Fence, <<>>))
        ELSE Strip(SubSeq(text, 1, Min(at) - 1) \o SubSeq(text, Max(at) + 3, Len(text)))

\* text.replace(FenceJson, "").replace(Fence, "").strip()
StripFences(text) == Strip(Replace(Replace(text, FenceJson, <<>>), Fence, <<>>))

\* re.sub(<control character class>, " ", text)
RECURSIVE ScrubControl(_)
ScrubControl(text) ==
    IF text = <<>> THEN <<>>
    ELSE <<IF Head(text) \in ControlChars THEN SP ELSE Head(text)>>
         \o ScrubControl(Tail(text))

\* text.replace(LF, " ")
FlattenNewlines(text) == Replace(text, <<LF>>, <<SP>>)

\* the escape regex matches at i: a backslash not followed by a legal escape
IllegalEscapeAt(text, i) ==
    /\ text[i] = BSL
    /\ (i = Len(text) \/ text[i + 1] \notin LegalEscapeNext)

RECURSIVE DropIllegalFrom(_, _)
DropIllegalFrom(text, i) ==
    IF i > Len(text) THEN <<>>
    ELSE IF IllegalEscapeAt(text, i) THEN DropIllegalFrom(text, i + 1)
         ELSE <<text[i]>> \o DropIllegalFrom(text, i + 1)

\* re.sub(<backslash not followed by a legal escape character>, "", text)
RemoveIllegalEscapes(text) == DropIllegalFrom(text, 1)

IndicesOf(text, c) == {i \in 1..Len(text) : text[i] = c}

\* mutant: an open brace and a close brace are looked for independently
HasBlock_AnyOrder(text) ==
    /\ IndicesOf(text, LBRACE) # {}
    /\ IndicesOf(text, RBRACE) # {}

\* re.search(<open brace, anything, close brace>, DOTALL) finds a match
HasBlock(text) ==
    /\ IndicesOf(text, LBRACE) # {}
    /\ \E j \in IndicesOf(text, RBRACE) : j > Min(IndicesOf(text, LBRACE))

\* mutant: the match stops at the first close brace after the first open brace
FindBlock_FirstClose(text) ==
    LET i == Min(IndicesOf(text, LBRACE))
    IN  SubSeq(text, i, Min({j \in IndicesOf(text, RBRACE) : j > i}))

\* match.group(0): greedy, from the first open brace to the last close brace
FindBlock(text) ==
    SubSeq(text, Min(IndicesOf(text, LBRACE)), Max(IndicesOf(text, RBRACE)))

\* json_text.replace(two open braces, one).replace(two close braces, one)
FixDoubleBraces(json_text) ==
    Replace(Replace(json_text, <<LBRACE, LBRACE>>, <<LBRACE>>),
            <<RBRACE, RBRACE>>, <<RBRACE>>)

\* re.sub(<comma, whitespace*, c>, c, json_text) for one closing character c
RECURSIVE RemoveCommaBefore(_, _)
RemoveCommaBefore(s, c) ==
    IF s = <<>> THEN <<>>
    ELSE IF Head(s) = COMMA
         THEN LET j == SkipWs(s, 2, PyWhitespace)
              IN  IF j <= Len(s) /\ s[j] = c
                  THEN <<c>> \o RemoveCommaBefore(SubSeq(s, j + 1, Len(s)), c)
                  ELSE <<COMMA>> \o RemoveCommaBefore(Tail(s), c)
         ELSE <<Head(s)>> \o RemoveCommaBefore(Tail(s), c)

\* mutant: only the comma before a close bracket is removed
RemoveTrailingCommas_BracketOnly(json_text) ==
    RemoveCommaBefore(json_text, RBRACK)

\* the two substitutions, close brace first and close bracket second
RemoveTrailingCommas(json_text) ==
    RemoveCommaBefore(RemoveCommaBefore(json_text, RBRACE), RBRACK)

\* the consistency checker makes them in the other order
RemoveTrailingCommasBracketFirst(json_text) ==
    RemoveCommaBefore(RemoveCommaBefore(json_text, RBRACK), RBRACE)

\* re.sub(<whitespace run>, " ", json_text)
RECURSIVE CollapseWhitespace(_)
CollapseWhitespace(s) ==
    IF s = <<>> THEN <<>>
    ELSE IF Head(s) \in PyWhitespace
         THEN <<SP>> \o CollapseWhitespace(SubSeq(s, SkipWs(s, 1, PyWhitespace), Len(s)))
         ELSE <<Head(s)>> \o CollapseWhitespace(Tail(s))

\* ------------------------------------------------------------- JSON values
Null      == [t |-> "null", v |-> <<>>]
Bool(b)   == [t |-> "bool", v |-> b]
Num(ds)   == [t |-> "num", v |-> ds]
Str(cs)   == [t |-> "str", v |-> cs]
Arr(xs)   == [t |-> "arr", v |-> xs]
Obj(f)    == [t |-> "obj", v |-> f]

\* ------------------------------------------------------------- json.loads
\* The strict decoder, restricted to what the texts of the model can spell:
\* objects, arrays, strings with escapes, unsigned integers and the three
\* literals. A unicode escape is decoded to the placeholder character UNI.
ParseFail == [ok |-> FALSE, val |-> Null, end |-> 0]
ParseOk(v, e) == [ok |-> TRUE, val |-> v, end |-> e]

\* the BACKSLASH table of the decoder
Unescape ==
    (QT :> QT) @@ (BSL :> BSL) @@ ("/" :> "/") @@ ("b" :> BSP) @@
    ("f" :> FF) @@ ("n" :> LF) @@ ("r" :> CR) @@ ("t" :> TAB)

\* scanstring (strict): j is the index after the opening quote
RECURSIVE ScanString(_, _, _)
ScanString(s, j, acc) ==
    IF j > Len(s) THEN ParseFail
    ELSE IF s[j] = QT THEN ParseOk(acc, j + 1)
    ELSE IF s[j] = BSL
         THEN IF j + 1 > Len(s) THEN ParseFail
              ELSE IF s[j + 1] = "u"
                   THEN IF j + 5 <= Len(s) /\ \A k \in (j + 2)..(j + 5) : s[k] \in HexDigits
                        THEN ScanString(s, j + 6, acc \o <<"UNI">>)
                        ELSE ParseFail
              ELSE IF s[j + 1] \in DOMAIN Unescape
                   THEN ScanString(s, j + 2, Append(acc, Unescape[s[j + 1]]))
                   ELSE ParseFail
    ELSE IF s[j] \in ControlChars \ {DEL} THEN ParseFail
    ELSE ScanString(s, j + 1, Append(acc, s[j]))

RECURSIVE DigitsEnd(_, _)
DigitsEnd(s, i) == IF i <= Len(s) /\ s[i] \in Digits THEN DigitsEnd(s, i + 1) ELSE i

MatchAt(s, i, w) == i + Len(w) - 1 <= Len(s) /\ SubSeq(s, i, i + Len(w) - 1) = w

RECURSIVE ParseValue(_, _)
RECURSIVE ParseMembers(_, _, _)
RECURSIVE ParseElements(_, _, _)

\* JSONObject, from the opening quote of a key at index q
ParseMembers(s, q, acc) ==
    LET k == ScanString(s, q + 1, <<>>) IN
    IF ~k.ok THEN ParseFail
    ELSE LET c == SkipWs(s, k.end, JsonWhitespace) IN
    IF c > Len(s) \/ s[c] # COLON THEN ParseFail
    ELSE LET x == ParseValue(s, SkipWs(s, c + 1, JsonWhitespace)) IN
    IF ~x.ok THEN ParseFail
    ELSE LET acc2 == (k.val :> x.val) @@ acc
             d    == SkipWs(s, x.end, JsonWhitespace) IN
    IF d > Len(s) THEN ParseFail
    ELSE IF s[d] = RBRACE THEN ParseOk(Obj(acc2), d + 1)
    ELSE IF s[d] # COMMA THEN ParseFail
    ELSE LET n == SkipWs(s, d + 1, JsonWhitespace) IN
    IF n > Len(s) \/ s[n] # QT THEN ParseFail
    ELSE ParseMembers(s, n, acc2)

\* JSONArray, from the first character of an element at index i
ParseElements(s, i, acc) ==
    LET x == ParseValue(s, i) IN
    IF ~x.ok THEN ParseFail
    ELSE LET acc2 == Append(acc, x.val)
             d    == SkipWs(s, x.end, JsonWhitespace) IN
    IF d > Len(s) THEN ParseFail
    ELSE IF s[d] = RBRACK THEN ParseOk(Arr(acc2), d + 1)
    ELSE IF s[d] # COMMA THEN ParseFail
    ELSE ParseElements(s, SkipWs(s, d + 1, JsonWhitespace), acc2)

\* scan_once
ParseValue(s, i) ==
    IF i > Len(s) THEN ParseFail
    ELSE IF s[i] = QT
         THEN LET r == ScanString(s, i + 1, <<>>)
              IN  IF r.ok THEN ParseOk(Str(r.val), r.end) ELSE ParseFail
    ELSE IF s[i] = LBRACE
         THEN LET j == SkipWs(s, i + 1, JsonWhitespace)
              IN  IF j > Len(s) THEN ParseFail
                  ELSE IF s[j] = RBRACE THEN ParseOk(Obj(<<>>), j + 1)
                  ELSE IF s[j] # QT THEN ParseFail
                  ELSE ParseMembers(s, j, <<>>)
    ELSE IF s[i] = LBRACK
         THEN LET j == SkipWs(s, i + 1, JsonWhitespace)
              IN  IF j > Len(s) THEN ParseFail
                  ELSE IF s[j] = RBRACK THEN ParseOk(Arr(<<>>), j + 1)
                  ELSE ParseElements(s, j, <<>>)
    ELSE IF MatchAt(s, i, <<"n", "u", "l", "l">>) THEN ParseOk(Null, i + 4)
    ELSE IF MatchAt(s, i, <<"t", "r", "u", "e">>) THEN ParseOk(Bool(TRUE), i + 4)
    ELSE IF MatchAt(s, i, <<"f", "a", "l", "s", "e">>) THEN ParseOk(Bool(FALSE), i + 5)
    ELSE IF s[i] \in Digits \ {"0"}
         THEN ParseOk(Num(SubSeq(s, i, DigitsEnd(s, i) - 1)), DigitsEnd(s, i))
    ELSE IF s[i] = "0" THEN ParseOk(Num(<<"0">>), i + 1)
    ELSE ParseFail

\* json.loads(json_text): one value, nothing but whitespace around it
JsonLoads(s) ==
    LET r == ParseValue(s, SkipWs(s, 1, JsonWhitespace)) IN
    IF r.ok /\ SkipWs(s, r.end, JsonWhitespace) = Len(s) + 1
    THEN [ok |-> TRUE, val |-> r.val]
    ELSE [ok |-> FALSE, val |-> Null]

\* ------------------------------------------- _safe_extract_json as a function
\* the copies that carry the "fix double braces" statement; the pathology and
\* procedure copies go from the block search straight to the trailing commas
HasBraceStep(b) == b \in {"prescription", "billing", "clinical_notes"}

\* the statements before the block search
Cleaned(text) ==
    RemoveIllegalEscapes(FlattenNewlines(ScrubControl(StripFences(text))))

\* the statements between the block search and the parse
TouchedUp(b, block) ==
    CollapseWhitespace(RemoveTrailingCommas(
        IF HasBraceStep(b) THEN FixDoubleBraces(block) ELSE block))

Returned(v) == [kind |-> "value", val |-> v]
Raised(k)   == [kind |-> k, val |-> Null]

\* json_text[:4000] of the raise statement; the pathology copy cuts at 2500
\* and the procedure copy at 2000
ExcerptLimit(b) ==
    IF b = "pathology" THEN 2500 ELSE IF b = "procedure" THEN 2000 ELSE 4000

NoReport == [diag |-> "None", excerpt |-> <<>>]

\* mutant: the message carries the whole block
ErrorReport_WholeBlock(b, block) ==
    [diag |-> "JSONDecodeError", excerpt |-> block]

\* what the ValueError of the except clause carries: the text of the parser
\* exception e and the first characters of json_text
ErrorReport(b, block) ==
    [diag |-> "JSONDecodeError",
     excerpt |-> SubSeq(block, 1, Min({Len(block), ExcerptLimit(b)}))]

\* the outcome of one call _safe_extract_json(text) of the copy in bot b
SafeExtractJson(b, text) ==
    IF text = <<>> THEN Raised("EmptyInput")
    ELSE IF ~HasBlock(Cleaned(text)) THEN Raised("NoStructuredBlockFound")
    ELSE LET r == JsonLoads(TouchedUp(b, FindBlock(Cleaned(text))))
         IN  IF r.ok THEN Returned(r.val) ELSE Raised("ParseFailure")

\* ------------------------------------------------------------ json.dumps
\* the escapes json.dumps writes for the characters of a string
EscapeChar(c) ==
    CASE c = QT  -> <<BSL, QT>>
      [] c = BSL -> <<BSL, BSL>>
      [] c = LF  -> <<BSL, "n">>
      [] c = CR  -> <<BSL, "r">>
      [] c = TAB -> <<BSL, "t">>
      [] c = FF  -> <<BSL, "f">>
      [] c = BSP -> <<BSL, "b">>
      [] OTHER   -> <<c>>

RECURSIVE EscapeStr(_)
EscapeStr(cs) == IF cs = <<>> THEN <<>> ELSE EscapeChar(Head(cs)) \o EscapeStr(Tail(cs))

\* the keys of the model, in the insertion order of the serialized mappings
KeyOrder == << <<"a">>, <<"b">> >>

RECURSIVE Serialize(_)
RECURSIVE SerializeItems(_)
RECURSIVE SerializeMembers(_, _, _)

\* the elements of a list, joined by ", "
SerializeItems(xs) ==
    IF xs = <<>> THEN <<>>
    ELSE Serialize(Head(xs))
         \o (IF Tail(xs) = <<>> THEN <<>> ELSE <<COMMA, SP>> \o SerializeItems(Tail(xs)))

\* the members of a mapping f, keys from index i of KeyOrder on
SerializeMembers(f, i, first) ==
    IF i > Len(KeyOrder) THEN <<>>
    ELSE IF KeyOrder[i] \notin DOMAIN f THEN SerializeMembers(f, i + 1, first)
    ELSE (IF first THEN <<>> ELSE <<COMMA, SP>>)
         \o <<QT>> \o EscapeStr(KeyOrder[i]) \o <<QT, COLON, SP>>
         \o Serialize(f[KeyOrder[i]])
         \o SerializeMembers(f, i + 1, FALSE)

\* json.dumps(v) with the default separators
Serialize(x) ==
    CASE x.t = "null" -> <<"n", "u", "l", "l">>
      [] x.t = "bool" -> IF x.v THEN <<"t", "r", "u", "e">> ELSE <<"f", "a", "l", "s", "e">>
      [] x.t = "num"  -> x.v
      [] x.t = "str"  -> <<QT>> \o EscapeStr(x.v) \o <<QT>>
      [] x.t = "arr"  -> <<LBRACK>> \o SerializeItems(x.v) \o <<RBRACK>>
      [] x.t = "obj"  -> <<LBRACE>> \o SerializeMembers(x.v, 1, TRUE) \o <<RBRACE>>

\* ------------------------------------------------------------------ inputs
\* nesting depth of the structured values fed to the extractor
MaxDepth == 2

\* length of the exhaustively enumerated raw texts
MaxRawLen == 3

One == Num(<<"1">>)

\* a number, a string with two consecutive spaces, a string that holds a
\* backslash followed by a letter
Scalars == {One, Str(<<"a", SP, SP, "b">>), Str(<<BSL, "q">>)}

RECURSIVE ValuesUpTo(_)
ValuesUpTo(d) ==
    IF d = 0 THEN Scalars
    ELSE LET S == ValuesUpTo(d - 1)
         IN  S \cup {Obj(<<>>)}
               \cup {Obj(KeyOrder[1] :> x) : x \in S}
               \cup {Obj((KeyOrder[1] :> x) @@ (KeyOrder[2] :> One)) : x \in S}
               \cup {Arr(<<x>>) : x \in S}

Values == ValuesUpTo(MaxDepth)

ObjectValues == {x \in Values : x.t = "obj"}

\* which characters of s belong to a string literal (quotes included)
RECURSIVE StringMask(_, _, _)
StringMask(s, inside, esc) ==
    IF s = <<>> THEN <<>>
    ELSE LET c == Head(s) IN
         IF ~inside THEN <<c = QT>> \o StringMask(Tail(s), c = QT, FALSE)
         ELSE IF esc THEN <<TRUE>> \o StringMask(Tail(s), TRUE, FALSE)
         ELSE IF c = BSL THEN <<TRUE>> \o StringMask(Tail(s), TRUE, TRUE)
         ELSE <<TRUE>> \o StringMask(Tail(s), c # QT, FALSE)

\* the closing brace and bracket tokens of a serialized value
ClosingTokens(s) ==
    LET m == StringMask(s, FALSE, FALSE)
    IN  {i \in 1..Len(s) : s[i] \in {RBRACE, RBRACK} /\ ~m[i]}

\* the gaps between two tokens: p stands for the gap between s[p] and s[p+1]
TokenGaps(s) ==
    LET m == StringMask(s, FALSE, FALSE)
    IN  {p \in 1..(Len(s) - 1) :
            /\ ~(m[p] /\ m[p + 1])
            /\ ~(s[p] \in Digits /\ s[p + 1] \in Digits)}

\* the spaces that separate two tokens
TokenSpaces(s) ==
    LET m == StringMask(s, FALSE, FALSE)
    IN  {i \in 1..Len(s) : s[i] = SP /\ ~m[i]}

InsertAt(s, p, x) == SubSeq(s, 1, p) \o x \o SubSeq(s, p + 1, Len(s))

Case(k, b, x, txt) == [kind |-> k, base |-> b, val |-> x, text |-> txt]

\* serialize(v), no noise
CleanCases == {Case("clean", Serialize(x), x, Serialize(x)) : x \in Values}

\* a comma, or a comma and a space, right before a closing token
CommaCases ==
    UNION {LET s == Serialize(x)
           IN  {Case("comma", s, x, InsertAt(s, i - 1, ins)) :
                    i \in ClosingTokens(s), ins \in {<<COMMA>>, <<COMMA, SP>>}}
           : x \in ObjectValues}

\* the serialized object inside a fence with the json tag
FenceCases ==
    UNION {LET s == Serialize(x)
           IN  {Case("fence", s, x, FenceJson \o <<LF>> \o s \o <<LF>> \o Fence),
                Case("fence", s, x, FenceJson \o s \o Fence)}
           : x \in ObjectValues}

\* the control characters inserted as noise
NoiseChars == {NUL, FF}

CtrlCases ==
    UNION {LET s == Serialize(x)
           IN  {Case("ctrl", s, x, InsertAt(s, p, <<c>>)) :
                    p \in TokenGaps(s), c \in NoiseChars}
           : x \in ObjectValues}

NewlineCases ==
    UNION {LET s == Serialize(x)
           IN  {Case("newline", s, x, [s EXCEPT ![i] = LF]) : i \in TokenSpaces(s)}
           : x \in ObjectValues}

\* the object written with doubled outer braces
DoubledCases ==
    {Case("doubled", Serialize(x), x, <<LBRACE>> \o Serialize(x) \o <<RBRACE>>) :
        x \in ObjectValues}

\* prose before the first open brace and after the last close brace
ProseBefore == {<<"a", SP>>, <<RBRACE, SP>>, <<BT, BT>>, <<"a", BSL>>,
                <<"a", LF>> \o FenceJson \o <<LF>>}
ProseAfter  == {<<SP, "a">>, <<SP, LBRACE>>, <<BT>>, <<BSL>>,
                <<LF>> \o Fence \o <<LF, "a">>}

ProseCases ==
    UNION {LET s == Serialize(x)
           IN  {Case("prose", s, x, pre \o s \o post) :
                    pre \in ProseBefore \cup {<<>>}, post \in ProseAfter \cup {<<>>}}
           : x \in ObjectValues}

\* scenario A: a fenced object with a trailing comma between two lines of prose
ScenarioASpan ==
    <<LBRACE, QT, "a", QT, COLON, SP, "1", COMMA, SP, QT, "b", QT, COLON, SP,
      LBRACK, "1", COMMA, "2", COMMA, "3", RBRACK, COMMA, RBRACE>>

ScenarioAText ==
    <<"S", "u", "r", "e", "!", SP, "H", "e", "r", "e", SP, "y", "o", "u", SP,
      "g", "o", COLON, LF>>
    \o FenceJson \o <<LF>> \o ScenarioASpan \o <<LF>> \o Fence \o <<LF>>
    \o <<"H", "o", "p", "e", SP, "t", "h", "a", "t", SP, "h", "e", "l", "p", "s", "!">>

ScenarioAValue ==
    Obj((<<"a">> :> One) @@
        (<<"b">> :> Arr(<<One, Num(<<"2">>), Num(<<"3">>)>>)))

\* scenario B: an object between doubled braces
ScenarioBValue == Obj(<<"x">> :> Str(<<"y">>))
ScenarioBText ==
    <<LBRACE, LBRACE, QT, "x", QT, COLON, SP, QT, "y", QT, RBRACE, RBRACE>>

\* scenario C: two objects with other text between them
ScenarioCFirst == <<LBRACE, QT, "a", QT, COLON, "1", RBRACE>>
ScenarioCText ==
    ScenarioCFirst \o <<SP, "g", "a", "r", "b", "a", "g", "e", SP>>
    \o <<LBRACE, QT, "b", QT, COLON, "2", RBRACE>>

FlatObjects == {x \in ValuesUpTo(1) : x.t = "obj" /\ x.v # <<>>}

ScenarioCases ==
    {Case("scenarioA", ScenarioASpan, ScenarioAValue, ScenarioAText),
     Case("prose", ScenarioASpan, ScenarioAValue, ScenarioAText),
     Case("doubled", SubSeq(ScenarioBText, 2, Len(ScenarioBText) - 1),
          ScenarioBValue, ScenarioBText),
     Case("two_objects", ScenarioCFirst, Obj(<<"a">> :> One), ScenarioCText)}
    \cup {Case("two_objects", Serialize(x), x,
               Serialize(x) \o <<SP, "a", SP>> \o Serialize(y)) :
             x \in FlatObjects, y \in FlatObjects}

\* every text of at most MaxRawLen characters over a small alphabet
RawAlphabet == {LBRACE, RBRACE, SP, LF, "a", BSL, NUL}

RECURSIVE TextsOfLen(_)
TextsOfLen(n) ==
    IF n = 0 THEN {<<>>}
    ELSE {Append(txt, c) : txt \in TextsOfLen(n - 1), c \in RawAlphabet}

RawTexts == UNION {TextsOfLen(n) : n \in 0..MaxRawLen}

RawCases == {Case("raw", txt, Null, txt) : txt \in RawTexts}

\* the texts handed to _safe_extract_json by a direct call
DirectCases ==
    CleanCases \cup CommaCases \cup FenceCases \cup CtrlCases \cup NewlineCases
    \cup DoubledCases \cup ProseCases \cup ScenarioCases \cup RawCases

\* what response.output_text can be: None or a text
NoText == <<"None">>

Completions ==
    {NoText, <<>>, <<SP, LF>>, <<"a">>, ScenarioAText}
    \cup {<<LF>> \o Serialize(x) \o <<SP>> : x \in {y \in ValuesUpTo(2) : y.t = "obj"}}

\* ------------------------------------------------------------------- state
\* the generation bots whose module holds a copy of the extractor and a
\* generate_*_llm retry loop
Bots == {"prescription", "billing", "pathology", "procedure", "clinical_notes"}

\* generate_clinical_notes_llm ends in "return raw" where the others raise
HasFinalFallback(b) == b = "clinical_notes"

\* the other modules with an extractor of their own: _safe_extract_json of
\* the vitals bot and of the consistency checker, _safe_json_extract (with
\* _clean_text) of the safety labeler
OtherExtractors == {"vitals", "safety_labeler", "consistency"}

\* the module names the import statements of the module bind; vitals_bot.py
\* imports os, datetime and OpenAI only and uses json and re all the same
Imported(b) == IF b = "vitals" THEN {"os"} ELSE {"os", "json", "re"}

\* the consistency checker returns a default report where the others raise
NeverRaises(b) == b = "consistency"

\* the statements of the extractor of each module, in order. In the vitals
\* copy the statements after the block search cannot be reached (re is not
\* bound), so they are left out
Steps(b) ==
    IF b = "vitals" THEN <<"check_empty", "strip_fences", "direct_parse", "search">>
    ELSE IF b = "safety_labeler" THEN <<"strip_fences", "scrub_control", "search", "parse">>
    ELSE IF b = "consistency" THEN
        <<"check_empty", "strip_fences", "scrub_control", "search",
          "trailing_commas", "parse">>
    ELSE IF HasBraceStep(b) THEN
        <<"check_empty", "strip_fences", "scrub_control", "flatten_newlines",
          "remove_escapes", "search", "fix_braces", "trailing_commas",
          "collapse_ws", "parse">>
    ELSE
        <<"check_empty", "strip_fences", "scrub_control", "flatten_newlines",
          "remove_escapes", "search", "trailing_commas", "collapse_ws", "parse">>

\* the statement that follows statement st in the extractor of b
StepAfter(b, st) ==
    LET i == CHOOSE i \in 1..Len(Steps(b)) : Steps(b)[i] = st
    IN  Steps(b)[i + 1]

\* the keys and the messages of the default report of the consistency checker
KeyConsistencyReport ==
    <<"c", "o", "n", "s", "i", "s", "t", "e", "n", "c", "y", "_", "r", "e",
      "p", "o", "r", "t">>
KeyErrors ==
    <<"e", "r", "r", "o", "r", "s">>
KeyWarnings ==
    <<"w", "a", "r", "n", "i", "n", "g", "s">>
KeySuggestedFixes ==
    <<"s", "u", "g", "g", "e", "s", "t", "e", "d", "_", "f", "i", "x", "e",
      "s">>
MsgEmpty ==
    <<"E", "m", "p", "t", "y", SP, "r", "e", "s", "p", "o", "n", "s", "e",
      SP, "f", "r", "o", "m", SP, "L", "L", "M">>
MsgNoObject ==
    <<"N", "o", SP, "J", "S", "O", "N", SP, "o", "b", "j", "e", "c", "t", SP,
      "f", "o", "u", "n", "d", SP, "i", "n", SP, "L", "L", "M", SP, "o", "u",
      "t", "p", "u", "t">>
MsgParseFailed ==
    <<"J", "S", "O", "N", SP, "p", "a", "r", "s", "i", "n", "g", SP, "f",
      "a", "i", "l", "e", "d">>

DefaultMessage(k) ==
    IF k = "EmptyInput" THEN MsgEmpty
    ELSE IF k = "NoStructuredBlockFound" THEN MsgNoObject
    ELSE MsgParseFailed

\* the dict the consistency checker returns instead of raising
DefaultReport(k) ==
    Obj(KeyConsistencyReport :>
        Obj((KeyErrors :> Arr(<<Str(DefaultMessage(k))>>))
            @@ (KeyWarnings :> Arr(<<>>))
            @@ (KeySuggestedFixes :> Arr(<<>>))))

\* range(3) of the retry loops
MaxAttempts == 3

NoCase    == Case("none", <<>>, Null, <<>>)
NoOutcome == [kind |-> "none", val |-> Null]

VARIABLES
    bot,          \* the module whose functions run
    caller,       \* "none", "direct" (the extractor called on its own) or "generate"
    pc,           \* the statement about to run
    arg,          \* the text the extractor was called with, and how it was built
    text,         \* local variable text of _safe_extract_json
    json_text,    \* local variable json_text of _safe_extract_json
    outcome,      \* how the call of _safe_extract_json ended
    searched,     \* the block search ran in this call
    parses,       \* json.loads calls made in this call
    report,       \* what the ValueError of a rejected parse carries
    attempt,      \* loop variable of the retry loop
    requests,     \* completion requests made by this call of generate_*_llm
    last_error,   \* local variable last_error of generate_*_llm
    raw,          \* local variable raw of generate_*_llm
    errors,       \* the error of each failed attempt, in order
    result,       \* how the call of generate_*_llm ended
    prev,         \* the input and the outcome of an earlier call in this process
    calls,        \* the frames of the calls of _safe_extract_json that run at once
    client,       \* module-level name client of the bot module
    lazy_client,  \* module-level name _client of a module with _get_openai_client
    built,        \* OpenAI(...) objects constructed by _get_openai_client so far
    getters,      \* the frames of the calls of _get_openai_client
    session,      \* st.session_state of the chat application
    trace,        \* the calls generate_orchestrated_response made, in order
    chosen_bot,   \* local variable chosen_bot of generate_orchestrated_response
    memory,       \* the users with a document in the Chroma collection
    frame         \* the arguments and local variables of the function that runs

vars == <<bot, caller, pc, arg, text, json_text, outcome, searched, parses,
          report, attempt, requests, last_error, raw, errors, result,
          prev, calls, client, lazy_client, built, getters,
          session, trace, chosen_bot, memory, frame>>

extractor_vars == <<arg, text, json_text, outcome, searched, parses, report>>
loop_vars == <<attempt, requests, last_error, raw, errors, result>>

app_vars == <<session, trace, chosen_bot, memory, frame>>

process_vars == <<prev, calls, client, lazy_client, built, getters, app_vars>>

\* a local variable that no statement has assigned yet
Unbound == <<"unbound">>

NoPrev == [text |-> Unbound, outcome |-> NoOutcome]

\* the callers that may run at the same time
MaxCallers == 2
Callers == 1..MaxCallers

\* the frame of a call that has not started
NoFrame ==
    [pc |-> "idle", arg |-> <<>>, text |-> <<>>, json_text |-> <<>>,
     outcome |-> NoOutcome, parses |-> 0, met |-> FALSE]

\* _client = None; the OpenAI objects are numbered from 1 as they are built
NoClient == 0

\* the frame of a call of _get_openai_client that has not started: api_key
\* is its local, made the object its OpenAI(...) call built, got the object
\* the last call of this caller returned
NoGetter == [pc |-> "idle", api_key |-> "None", made |-> NoClient, got |-> NoClient]

\* st.session_state after the "SESSION STATE INIT" section ran in a new
\* browser session; the Python None is written "None", a text is a sequence
NoSession ==
    [messages |-> <<>>, pdf_text |-> <<>>, file_id |-> "None",
     user_id |-> "None", vector_store_id |-> "None", user_choice |-> "None",
     web_search_enabled |-> FALSE, latest_web_refs |-> "None",
     latest_meds_rag_chunks |-> <<>>]

\* no function with a frame of its own runs
NoLocals == [fn |-> "none"]

\* no function of the process has been called yet: the modules are imported,
\* client = _get_openai_client() has run in the bot module and _client = None
\* in the modules with a lazy client
Idle ==
    /\ caller = "none"
    /\ pc = "idle"
    /\ arg = NoCase
    /\ text = <<>>
    /\ json_text = <<>>
    /\ outcome = NoOutcome
    /\ searched = FALSE
    /\ parses = 0
    /\ report = NoReport
    /\ attempt = 0
    /\ requests = 0
    /\ last_error = "None"
    /\ raw = Unbound
    /\ errors = <<>>
    /\ result = NoOutcome
    /\ prev = NoPrev
    /\ calls = [c \in Callers |-> NoFrame]
    /\ client = "client"
    /\ lazy_client = NoClient
    /\ built = 0
    /\ getters = [c \in Callers |-> NoGetter]
    /\ session = NoSession
    /\ trace = <<>>
    /\ chosen_bot = Unbound
    /\ memory = {}
    /\ frame = NoLocals

Init == bot \in Bots /\ Idle

\* entry of _safe_extract_json(c.text)
Enter(c) ==
    /\ arg' = c
    /\ text' = c.text
    /\ json_text' = <<>>
    /\ outcome' = NoOutcome
    /\ searched' = FALSE
    /\ parses' = 0
    /\ report' = NoReport
    /\ pc' = Steps(bot)[1]

\* _safe_extract_json called on its own with one of the input texts
CallDirect ==
    /\ pc = "idle"
    /\ \E c \in DirectCases : Enter(c)
    /\ caller' = "direct"
    /\ UNCHANGED <<process_vars, bot, loop_vars>>

\* raise ValueError(...) inside _safe_extract_json
Raise(k) ==
    /\ outcome' = Raised(k)
    /\ pc' = "raised"

\* return {"consistency_report": {...}} inside the consistency checker
ReturnDefault(k) ==
    /\ outcome' = Returned(DefaultReport(k))
    /\ pc' = "returned"

\* mutant: the consistency checker raises as the other copies do
Fail_Raises(k) == Raise(k)

\* what the extractor of the module does when it gives up
Fail(k) == IF NeverRaises(bot) THEN ReturnDefault(k) ELSE Raise(k)

\* mutant: the text is stripped before it is tested for emptiness
CheckEmpty_StripFirst ==
    /\ pc = "check_empty"
    /\ IF Strip(text) = <<>>
       THEN Fail("EmptyInput")
       ELSE pc' = StepAfter(bot, "check_empty") /\ UNCHANGED outcome
    /\ UNCHANGED <<process_vars, bot, caller, report, arg, text, json_text, searched, parses, loop_vars>>

\* if not text: raise ValueError("... Empty model output.")
CheckEmpty ==
    /\ pc = "check_empty"
    /\ IF text = <<>>
       THEN Fail("EmptyInput")
       ELSE pc' = StepAfter(bot, "check_empty") /\ UNCHANGED outcome
    /\ UNCHANGED <<process_vars, bot, caller, report, arg, text, json_text, searched, parses, loop_vars>>

DoStripFences ==
    /\ pc = "strip_fences"
    /\ text' = StripFences(text)
    /\ pc' = StepAfter(bot, "strip_fences")
    /\ UNCHANGED <<process_vars, bot, caller, report, arg, json_text, outcome, searched, parses, loop_vars>>

DoScrubControl ==
    /\ pc = "scrub_control"
    /\ text' = ScrubControl(text)
    /\ pc' = StepAfter(bot, "scrub_control")
    /\ UNCHANGED <<process_vars, bot, caller, report, arg, json_text, outcome, searched, parses, loop_vars>>

DoFlattenNewlines ==
    /\ pc = "flatten_newlines"
    /\ text' = FlattenNewlines(text)
    /\ pc' = StepAfter(bot, "flatten_newlines")
    /\ UNCHANGED <<process_vars, bot, caller, report, arg, json_text, outcome, searched, parses, loop_vars>>

DoRemoveIllegalEscapes ==
    /\ pc = "remove_escapes"
    /\ text' = RemoveIllegalEscapes(text)
    /\ pc' = StepAfter(bot, "remove_escapes")
    /\ UNCHANGED <<process_vars, bot, caller, report, arg, json_text, outcome, searched, parses, loop_vars>>

\* try: return json.loads(text) / except Exception: pass, the first attempt
\* of the vitals copy; where json is not bound the NameError is swallowed
DoDirectParse ==
    /\ pc = "direct_parse"
    /\ IF "json" \in Imported(bot) /\ JsonLoads(text).ok
       THEN /\ outcome' = Returned(JsonLoads(text).val)
            /\ pc' = "returned"
       ELSE /\ pc' = StepAfter(bot, "direct_parse")
            /\ UNCHANGED outcome
    /\ parses' = IF "json" \in Imported(bot) THEN parses + 1 ELSE parses
    /\ UNCHANGED <<process_vars, bot, caller, report, arg, text, json_text, searched, loop_vars>>

\* match = re.search(...); if not match: raise ValueError; json_text = match.group(0)
\* where re is not bound, the name lookup raises NameError
DoSearch ==
    /\ pc = "search"
    /\ IF "re" \notin Imported(bot)
       THEN /\ Raise("NameError")
            /\ UNCHANGED <<json_text, searched>>
       ELSE /\ searched' = TRUE
            /\ IF HasBlock(text)
               THEN /\ json_text' = FindBlock(text)
                    /\ pc' = StepAfter(bot, "search")
                    /\ UNCHANGED outcome
               ELSE /\ Fail("NoStructuredBlockFound")
                    /\ UNCHANGED json_text
    /\ UNCHANGED <<process_vars, bot, caller, report, arg, text, parses, loop_vars>>

DoFixDoubleBraces ==
    /\ pc = "fix_braces"
    /\ json_text' = FixDoubleBraces(json_text)
    /\ pc' = StepAfter(bot, "fix_braces")
    /\ UNCHANGED <<process_vars, bot, caller, report, arg, text, outcome, searched, parses, loop_vars>>

DoRemoveTrailingCommas ==
    /\ pc = "trailing_commas"
    /\ json_text' = IF bot = "consistency"
                    THEN RemoveTrailingCommasBracketFirst(json_text)
                    ELSE RemoveTrailingCommas(json_text)
    /\ pc' = StepAfter(bot, "trailing_commas")
    /\ UNCHANGED <<process_vars, bot, caller, report, arg, text, outcome, searched, parses, loop_vars>>

DoCollapseWhitespace ==
    /\ pc = "collapse_ws"
    /\ json_text' = CollapseWhitespace(json_text)
    /\ pc' = StepAfter(bot, "collapse_ws")
    /\ UNCHANGED <<process_vars, bot, caller, report, arg, text, outcome, searched, parses, loop_vars>>

\* mutant: a rejected block is stripped of its braces and parsed once more
DoParse_Retry ==
    /\ pc = "parse"
    /\ parses' = parses + 1
    /\ LET r == JsonLoads(json_text)
       IN  IF r.ok
           THEN outcome' = Returned(r.val) /\ pc' = "returned" /\ UNCHANGED <<report, json_text>>
           ELSE IF parses = 0
           THEN /\ json_text' = SubSeq(json_text, 2, Len(json_text) - 1)
                /\ UNCHANGED <<pc, outcome, report>>
           ELSE /\ Fail("ParseFailure")
                /\ report' = NoReport
                /\ UNCHANGED json_text
    /\ UNCHANGED <<process_vars, bot, caller, arg, text, searched, loop_vars>>

\* try: return json.loads(json_text) / except Exception: raise ValueError(...)
\* the safety labeler has no try around it: the parser exception goes up
DoParse ==
    /\ pc = "parse"
    /\ parses' = parses + 1
    /\ LET r == JsonLoads(json_text)
       IN  IF r.ok
           THEN outcome' = Returned(r.val) /\ pc' = "returned" /\ UNCHANGED report
           ELSE /\ Fail("ParseFailure")
                /\ report' = IF bot \in Bots THEN ErrorReport(bot, json_text)
                             ELSE NoReport
    /\ UNCHANGED <<process_vars, bot, caller, arg, text, json_text, searched, loop_vars>>

\* ------------------------------------------------------ generate_*_llm
NoResult == [kind |-> "none", val |-> Null, cause |-> "None"]

\* generate_*_llm is called: last_error = None, the loop starts
CallGenerate ==
    /\ pc = "idle"
    /\ caller' = "generate"
    /\ attempt' = 0
    /\ requests' = 0
    /\ last_error' = "None"
    /\ raw' = Unbound
    /\ errors' = <<>>
    /\ result' = NoResult
    /\ pc' = "request"
    /\ UNCHANGED <<process_vars, bot, extractor_vars>>

\* raw = (response.output_text or "").strip()
RawOf(out) == Strip(IF out = NoText THEN <<>> ELSE out)

\* client.responses.create(...) returns; _safe_extract_json(raw) is entered
CompletionReturns ==
    /\ pc = "request"
    /\ attempt < MaxAttempts
    /\ requests' = requests + 1
    /\ \E out \in Completions :
          /\ raw' = RawOf(out)
          /\ Enter(Case("completion", RawOf(out), Null, RawOf(out)))
    /\ UNCHANGED <<process_vars, bot, caller, attempt, last_error, errors, result>>

\* mutant: the first error is kept instead of the last one
Catch_KeepFirst(e) ==
    /\ last_error' = IF last_error = "None" THEN e ELSE last_error
    /\ errors' = Append(errors, e)
    /\ attempt' = attempt + 1
    /\ pc' = IF attempt + 1 < MaxAttempts THEN "request" ELSE "exhausted"

\* except Exception as e: last_error = e; then the next iteration, if any
Catch(e) ==
    /\ last_error' = e
    /\ errors' = Append(errors, e)
    /\ attempt' = attempt + 1
    /\ pc' = IF attempt + 1 < MaxAttempts THEN "request" ELSE "exhausted"

\* client.responses.create(...) raises
CompletionFails ==
    /\ pc = "request"
    /\ attempt < MaxAttempts
    /\ requests' = requests + 1
    /\ Catch("APIError")
    /\ UNCHANGED <<process_vars, bot, caller, extractor_vars, raw, result>>

\* _safe_extract_json(raw) raised inside the try
ExtractionFails ==
    /\ caller = "generate"
    /\ pc = "raised"
    /\ Catch(outcome.kind)
    /\ UNCHANGED <<process_vars, bot, caller, extractor_vars, requests, raw, result>>

\* return _safe_extract_json(raw)
GenerateReturns ==
    /\ caller = "generate"
    /\ pc = "returned"
    /\ result' = [kind |-> "value", val |-> outcome.val, cause |-> "None"]
    /\ pc' = "gen_returned"
    /\ UNCHANGED <<process_vars, bot, caller, extractor_vars, attempt, requests, last_error, raw, errors>>

\* raise ValueError(f"... failed after 3 attempts: {last_error}")
GenerateRaises ==
    /\ pc = "exhausted"
    /\ ~HasFinalFallback(bot)
    /\ result' = [kind |-> "ValueError", val |-> Null, cause |-> last_error]
    /\ pc' = "gen_raised"
    /\ UNCHANGED <<process_vars, bot, caller, extractor_vars, attempt, requests, last_error, raw, errors>>

\* FINAL FALLBACK of generate_clinical_notes_llm: return raw. The name raw is
\* bound by the assignment inside the try only, so reading it raises
\* UnboundLocalError when no completion call ever returned
FinalFallback ==
    /\ pc = "exhausted"
    /\ HasFinalFallback(bot)
    /\ IF raw = Unbound
       THEN /\ result' = [kind |-> "UnboundLocalError", val |-> Null, cause |-> "None"]
            /\ pc' = "gen_raised"
       ELSE /\ result' = [kind |-> "raw", val |-> Str(raw), cause |-> "None"]
            /\ pc' = "gen_returned"
    /\ UNCHANGED <<process_vars, bot, caller, extractor_vars, attempt, requests, last_error, raw, errors>>

Next ==
    \/ CallDirect
    \/ CheckEmpty
    \/ DoStripFences
    \/ DoScrubControl
    \/ DoFlattenNewlines
    \/ DoRemoveIllegalEscapes
    \/ DoSearch
    \/ DoFixDoubleBraces
    \/ DoRemoveTrailingCommas
    \/ DoCollapseWhitespace
    \/ DoParse
    \/ CallGenerate
    \/ CompletionReturns
    \/ CompletionFails
    \/ ExtractionFails
    \/ GenerateReturns
    \/ GenerateRaises
    \/ FinalFallback

Spec == Init /\ [][Next]_vars

\* ------------------------------------------------------------ observations
\* a direct call of _safe_extract_json has ended
Finished == caller = "direct" /\ pc \in {"returned", "raised"}

\* the text consists of whitespace only (the empty text included)
IsBlank(txt) == \A i \in 1..Len(txt) : txt[i] \in PyWhitespace

\* the text holds no open brace with a close brace somewhere after it
NoBracePair(txt) ==
    ~\E i \in 1..Len(txt) : \E j \in (i + 1)..Len(txt) :
        txt[i] = LBRACE /\ txt[j] = RBRACE

\* the statements of _safe_extract_json that come after the block search
AfterSearch == {"fix_braces", "trailing_commas", "collapse_ws", "parse", "returned"}

\* ------------------------------------------------------------------ claims

\* C1: round trip on clean input. For every object v, the call
\* _safe_extract_json(serialize(v)) returns a value deep-equal to v.
C1_RoundTrip ==
    (Finished /\ arg.kind = "clean" /\ arg.val.t = "obj")
        => outcome = Returned(arg.val)

\* C2: for two top-level objects separated by other text the call returns
\* the first object only.
C2_FirstObjectOnly ==
    (Finished /\ arg.kind = "two_objects") => outcome = Returned(arg.val)

C4_NoBlockFound ==
    (caller = "direct" /\ arg.text # <<>> /\ NoBracePair(arg.text))
        => /\ parses = 0
           /\ pc \notin AfterSearch
           /\ (pc = "raised" => outcome = Raised("NoStructuredBlockFound"))

\* C4 witness: a call on a text with a close brace before an open brace ended
C4_Witness ==
    /\ Finished
    /\ arg.text = <<RBRACE, SP, LBRACE>>
    /\ searched
    /\ outcome = Raised("NoStructuredBlockFound")

\* C5: one call of generate_*_llm of the prescription, billing, pathology and
\* procedure bots makes at most 3 completion requests; it
\* returns the record of the first attempt that succeeds and makes no request
\* after that; the error reaches the caller only after 3 failed attempts, as
\* a ValueError that carries the error of the last attempt.
C5_BoundedRetry ==
    /\ []((caller = "generate" /\ ~HasFinalFallback(bot)) =>
            /\ requests <= 3
            /\ Len(errors) = attempt
            /\ (pc = "gen_returned" =>
                  /\ result.kind = "value"
                  /\ result.val = outcome.val
                  /\ outcome.kind = "value"
                  /\ requests = Len(errors) + 1)
            /\ (result.kind = "ValueError" =>
                  /\ pc = "gen_raised"
                  /\ requests = 3
                  /\ Len(errors) = 3
                  /\ result.cause = errors[3])
            /\ (pc = "gen_raised" => result.kind = "ValueError"))
    /\ [][(pc \in {"gen_returned", "gen_raised"}) => (requests' = requests)]_vars
    /\ [][(requests' # requests) =>
            (/\ requests' = requests + 1
             /\ result = NoResult
             /\ Len(errors) = requests)]_vars

\* C5 witness: three attempts failed in three different ways and the call raised
C5_Witness ==
    /\ pc = "gen_raised"
    /\ errors = <<"APIError", "EmptyInput", "ParseFailure">>
    /\ result.cause = "ParseFailure"

\* C6: scenario A returns the object without the trailing comma, and prose
\* outside the span from the first open brace to the last close brace does
\* not change the outcome of the call.
C6_ScenarioA ==
    Finished =>
        /\ (arg.kind = "scenarioA" => outcome = Returned(ScenarioAValue))
        /\ (arg.kind = "prose" => outcome = SafeExtractJson(bot, arg.base))

\* C6 witness: the call on the text of scenario A has returned a value
C6_Witness ==
    /\ Finished
    /\ arg.text = ScenarioAText
    /\ arg.kind = "scenarioA"
    /\ outcome.kind = "value"

\* C7: for an object written between doubled braces the call returns the
\* object, as if single braces had been written.
C7_DoubledBraces ==
    (Finished /\ arg.kind = "doubled") => outcome = Returned(arg.val)

\* C8: a comma (and whitespace) right before a closing brace or bracket of a
\* valid serialized object does not change what the call returns.
C8_TrailingComma ==
    (Finished /\ arg.kind = "comma") => outcome = SafeExtractJson(bot, arg.base)

\* C9: a valid serialized object inside a fence with the json tag gives the
\* same outcome as the object alone.
C9_FenceTolerance ==
    (Finished /\ arg.kind = "fence") => outcome = SafeExtractJson(bot, arg.base)

\* C9 witness: the call on a fenced nested object has returned a value
C9_Witness ==
    /\ Finished
    /\ arg.kind = "fence"
    /\ arg.val = Obj(KeyOrder[1] :> Arr(<<One>>))
    /\ outcome = Returned(arg.val)

\* C10: control characters inserted between tokens, or a newline in place of
\* a space between tokens, do not change what the call returns.
C10_InterTokenNoise ==
    (Finished /\ arg.kind \in {"ctrl", "newline"})
        => outcome = SafeExtractJson(bot, arg.base)

\* the braces of the text are balanced and properly nested
RECURSIVE BraceDepthOk(_, _, _)
BraceDepthOk(txt, i, d) ==
    IF i > Len(txt) THEN d = 0
    ELSE IF txt[i] = LBRACE THEN BraceDepthOk(txt, i + 1, d + 1)
    ELSE IF txt[i] = RBRACE THEN d > 0 /\ BraceDepthOk(txt, i + 1, d - 1)
    ELSE BraceDepthOk(txt, i + 1, d)

\* C11: block isolation. When the cleaned text holds an open brace with a
\* close brace somewhere after it, the block search does not fail and the
\* candidate block is exactly the part of the cleaned text from its first
\* open brace to its last close brace, whether or not the braces balance.
C11_BlockIsolation ==
    [][(pc = "search" /\ ~NoBracePair(text)) =>
        (/\ pc' # "raised"
         /\ \E i \in 1..Len(text) : \E j \in i..Len(text) :
               /\ json_text' = SubSeq(text, i, j)
               /\ text[i] = LBRACE
               /\ text[j] = RBRACE
               /\ \A k \in 1..(i - 1) : text[k] # LBRACE
               /\ \A k \in (j + 1)..Len(text) : text[k] # RBRACE)]_vars

\* C11 witness: the search has just isolated a block whose braces do not
\* balance
C11_Witness ==
    /\ searched
    /\ pc \in {"fix_braces", "trailing_commas"}
    /\ json_text = <<LBRACE, RBRACE, RBRACE>>
    /\ ~BraceDepthOk(json_text, 1, 0)

\* read from position i on, every backslash of the text starts a legal JSON
\* escape: it is followed by one of the characters of LegalEscapeNext, and
\* the character after it belongs to that escape
RECURSIVE EscapesLegal(_, _)
EscapesLegal(txt, i) ==
    IF i > Len(txt) THEN TRUE
    ELSE IF txt[i] # BSL THEN EscapesLegal(txt, i + 1)
    ELSE /\ i < Len(txt)
         /\ txt[i + 1] \in LegalEscapeNext
         /\ EscapesLegal(txt, i + 2)

\* C12: escape sanitization. After the escape step the text holds no
\* backslash sequence other than the legal JSON escapes, for every input.
C12_EscapeSanitized ==
    pc = "search" => EscapesLegal(text, 1)

\* ------------------------------------------------- the parse failure report
\* n copies of the character c
RECURSIVE Rep(_, _)
Rep(c, n) ==
    IF n = 0 THEN <<>>
    ELSE LET h == Rep(c, n \div 2)
         IN  h \o h \o (IF n % 2 = 1 THEN <<c>> ELSE <<>>)

\* lengths around the three excerpt limits, and short ones
BlockLengths ==
    {2, 3, 1999, 2000, 2001, 2499, 2500, 2501, 3999, 4000, 4001, 8000}

\* cleaned blocks of these lengths: braces around letters, which no statement
\* of the pipeline changes and which the parser rejects, and the empty object
LongBlocks ==
    {<<LBRACE>> \o Rep(c, n - 2) \o <<RBRACE>> : n \in BlockLengths, c \in {"a", "b"}}

\* _safe_extract_json(block) stands before its try statement: for these
\* blocks every statement before it leaves the text as it is
InitReport ==
    /\ bot \in Bots
    /\ caller = "direct"
    /\ pc = "parse"
    /\ \E block \in LongBlocks :
          /\ arg = Case("block", block, Null, block)
          /\ text = block
          /\ json_text = block
    /\ outcome = NoOutcome
    /\ searched = TRUE
    /\ parses = 0
    /\ report = NoReport
    /\ attempt = 0
    /\ requests = 0
    /\ last_error = "None"
    /\ raw = Unbound
    /\ errors = <<>>
    /\ result = NoOutcome
    /\ prev = NoPrev
    /\ calls = [c \in Callers |-> NoFrame]
    /\ client = "client"
    /\ lazy_client = NoClient
    /\ built = 0
    /\ getters = [c \in Callers |-> NoGetter]
    /\ session = NoSession
    /\ trace = <<>>
    /\ chosen_bot = Unbound
    /\ memory = {}
    /\ frame = NoLocals

NextReport == DoParse

SpecReport == InitReport /\ [][NextReport]_vars

\* C13: parse failure report. When the parser rejects the cleaned block, the
\* error carries the parser diagnostic and a prefix of the cleaned block that
\* is no longer than the limit of the copy: 4000 characters in the
\* prescription, billing and clinical-notes copies, never more in any copy.
C13_BoundedReport ==
    (pc = "raised" /\ outcome = Raised("ParseFailure")) =>
        /\ report.diag = "JSONDecodeError"
        /\ Len(report.excerpt) <= Len(json_text)
        /\ report.excerpt = SubSeq(json_text, 1, Len(report.excerpt))
        /\ Len(report.excerpt) <= 4000
        /\ (Len(json_text) <= 2000 => report.excerpt = json_text)
        /\ (bot \in {"prescription", "billing", "clinical_notes"} =>
              Len(report.excerpt) = Min({Len(json_text), 4000}))

\* C13 witness: a block of more than 4000 characters was rejected in the
\* clinical-notes copy and the report holds its first 4000 characters
C13_Witness ==
    /\ bot = "clinical_notes"
    /\ pc = "raised"
    /\ outcome = Raised("ParseFailure")
    /\ Len(json_text) = 4001
    /\ Len(report.excerpt) = 4000

\* ------------------------------------------------- the other extractors
InitExtractors == bot \in OtherExtractors /\ Idle

NextExtractors ==
    \/ CallDirect
    \/ CheckEmpty
    \/ DoStripFences
    \/ DoScrubControl
    \/ DoDirectParse
    \/ DoSearch
    \/ DoRemoveTrailingCommas
    \/ DoParse

SpecExtractors == InitExtractors /\ [][NextExtractors]_vars

\* the class of the exception that reaches the caller when the extractor of
\* module b fails in the way k
ExceptionType(b, k) ==
    IF k = "NameError" THEN "NameError"
    ELSE IF b = "safety_labeler" /\ k = "ParseFailure" THEN "JSONDecodeError"
    ELSE "ValueError"

\* json.JSONDecodeError is a subclass of ValueError
IsValueError(t) == t \in {"ValueError", "JSONDecodeError"}

\* C14: uniform typed failure. Every call of a raising extractor ends in one
\* of two ways: it returns a parsed value, or it raises a ValueError; no
\* other exception type reaches the caller.
C14_UniformFailure ==
    (Finished /\ ~NeverRaises(bot)) =>
        \/ pc = "returned" /\ outcome.kind = "value"
        \/ pc = "raised" /\ IsValueError(ExceptionType(bot, outcome.kind))

\* ------------------------------------------------------- one call after another
\* a few texts of every kind of outcome
RepeatCases ==
    {Case("repeat", txt, Null, txt) :
        txt \in {<<>>, <<SP>>, <<"a">>, <<LBRACE, RBRACE>>, <<LBRACE, "a", RBRACE>>,
                 <<BSL, BSL, "a">>, ScenarioAText, ScenarioBText, ScenarioCText,
                 Serialize(ScenarioAValue)}}

\* _safe_extract_json called with one of these texts
CallRepeat ==
    /\ pc = "idle"
    /\ \E c \in RepeatCases : Enter(c)
    /\ caller' = "direct"
    /\ UNCHANGED <<process_vars, bot, loop_vars>>

\* the call has ended and its frame is gone; the caller may call again. The
\* input and the outcome of this call, or of an earlier one, are remembered
ReturnToCaller ==
    /\ Finished
    /\ prev' \in {prev, [text |-> arg.text, outcome |-> outcome]}
    /\ caller' = "none"
    /\ pc' = "idle"
    /\ arg' = NoCase
    /\ text' = <<>>
    /\ json_text' = <<>>
    /\ outcome' = NoOutcome
    /\ searched' = FALSE
    /\ parses' = 0
    /\ report' = NoReport
    /\ UNCHANGED <<bot, loop_vars, calls, client, lazy_client, built, getters,
                   app_vars>>

NextRepeat ==
    \/ CallRepeat
    \/ CheckEmpty
    \/ DoStripFences
    \/ DoScrubControl
    \/ DoFlattenNewlines
    \/ DoRemoveIllegalEscapes
    \/ DoSearch
    \/ DoFixDoubleBraces
    \/ DoRemoveTrailingCommas
    \/ DoCollapseWhitespace
    \/ DoParse
    \/ ReturnToCaller

SpecRepeat == Init /\ [][NextRepeat]_vars

\* the place of statement st in the extractor of b; 0 outside the extractor
StepIndex(b, st) ==
    IF \E i \in 1..Len(Steps(b)) : Steps(b)[i] = st
    THEN CHOOSE i \in 1..Len(Steps(b)) : Steps(b)[i] = st
    ELSE 0

\* C15: determinism and no internal retry. One call of _safe_extract_json
\* runs each of its statements at most once, in order, and calls the parser
\* at most once; two calls with the same text end with the same outcome,
\* whatever calls came before.
C15_Deterministic ==
    /\ [](parses <= 1)
    /\ []((Finished /\ prev.text = arg.text) => outcome = prev.outcome)
    /\ [][(StepIndex(bot, pc) > 0 /\ StepIndex(bot, pc') > 0) =>
            (StepIndex(bot, pc') > StepIndex(bot, pc))]_vars
    /\ [][(StepIndex(bot, pc) > 0) => (arg' = arg)]_vars

\* C15 witness: a text whose block the parser rejects has been handed in a
\* second time and rejected again after one parse attempt
C15_Witness ==
    /\ Finished
    /\ prev.text = ScenarioCText
    /\ prev.outcome = Raised("ParseFailure")
    /\ arg.text = ScenarioCText
    /\ parses = 1

\* ----------------------------------------------------- calls that run at once
\* texts of every kind of outcome
ConcurrentTexts ==
    {<<>>, <<"a">>, <<LBRACE, QT, "a", QT, COLON, "1", COMMA, RBRACE>>, ScenarioCText}

\* the statements of one call, as opposed to "idle", "returned" and "raised"
Running(f) == f.pc \notin {"idle", "returned", "raised"}

\* mutant: text is one name shared by all calls, bound by caller 1
TextOf_Shared(c) == calls[1].text

\* the local name text of the call of caller c
TextOf(c) == calls[c].text

\* the frame of caller c after the statement at its pc has run; every
\* statement reads and writes the names of its own frame
StepFrame(b, c) ==
    LET f == calls[c]
        next == IF f.pc = "parse" THEN "returned" ELSE StepAfter(b, f.pc)
        gone(k) == [f EXCEPT !.pc = "raised", !.outcome = Raised(k)]
    IN  IF f.pc = "check_empty" THEN
            IF TextOf(c) = <<>> THEN gone("EmptyInput") ELSE [f EXCEPT !.pc = next]
        ELSE IF f.pc = "strip_fences" THEN
            [f EXCEPT !.pc = next, !.text = StripFences(TextOf(c))]
        ELSE IF f.pc = "scrub_control" THEN
            [f EXCEPT !.pc = next, !.text = ScrubControl(TextOf(c))]
        ELSE IF f.pc = "flatten_newlines" THEN
            [f EXCEPT !.pc = next, !.text = FlattenNewlines(TextOf(c))]
        ELSE IF f.pc = "remove_escapes" THEN
            [f EXCEPT !.pc = next, !.text = RemoveIllegalEscapes(TextOf(c))]
        ELSE IF f.pc = "search" THEN
            IF HasBlock(TextOf(c))
            THEN [f EXCEPT !.pc = next, !.json_text = FindBlock(TextOf(c))]
            ELSE gone("NoStructuredBlockFound")
        ELSE IF f.pc = "fix_braces" THEN
            [f EXCEPT !.pc = next, !.json_text = FixDoubleBraces(f.json_text)]
        ELSE IF f.pc = "trailing_commas" THEN
            [f EXCEPT !.pc = next, !.json_text = RemoveTrailingCommas(f.json_text)]
        ELSE IF f.pc = "collapse_ws" THEN
            [f EXCEPT !.pc = next, !.json_text = CollapseWhitespace(f.json_text)]
        ELSE
            LET r == JsonLoads(f.json_text)
            IN  IF r.ok
                THEN [f EXCEPT !.pc = next, !.parses = f.parses + 1,
                               !.outcome = Returned(r.val)]
                ELSE [gone("ParseFailure") EXCEPT !.parses = f.parses + 1]

sequential_vars ==
    <<caller, pc, arg, text, json_text, outcome, searched, parses, report,
      attempt, requests, last_error, raw, errors, result, prev, app_vars>>

\* caller c calls _safe_extract_json(txt)
ConcurrentCall(c) ==
    /\ calls[c].pc = "idle"
    /\ \E txt \in ConcurrentTexts :
          calls' = [calls EXCEPT ![c] =
              [NoFrame EXCEPT !.pc = Steps(bot)[1], !.arg = txt, !.text = txt,
                              !.met = \E d \in Callers : Running(calls[d])]]
    /\ UNCHANGED <<bot, sequential_vars, client, lazy_client, built, getters>>

\* the call of caller c runs its next statement; met records, in the frames
\* of the other running calls, that a statement of another call ran meanwhile
ConcurrentStep(c) ==
    /\ Running(calls[c])
    /\ calls' = [d \in Callers |->
                    IF d = c THEN StepFrame(bot, c)
                    ELSE IF Running(calls[d]) THEN [calls[d] EXCEPT !.met = TRUE]
                    ELSE calls[d]]
    /\ UNCHANGED <<bot, sequential_vars, client, lazy_client, built, getters>>

\* the caller takes the result and its frame is gone
ConcurrentReturn(c) ==
    /\ calls[c].pc \in {"returned", "raised"}
    /\ calls' = [calls EXCEPT ![c] = NoFrame]
    /\ UNCHANGED <<bot, sequential_vars, client, lazy_client, built, getters>>

InitConcurrent == bot \in {"prescription", "pathology"} /\ Idle

NextConcurrent ==
    \E c \in Callers :
        \/ ConcurrentCall(c)
        \/ ConcurrentStep(c)
        \/ ConcurrentReturn(c)

SpecConcurrent == InitConcurrent /\ [][NextConcurrent]_vars

\* C16: concurrent safety of the extractor. With any number of calls of
\* _safe_extract_json running at once, in any interleaving, every call ends
\* as it would have ended alone; and no module-level name is rebound.
C16_ConcurrentSafe ==
    /\ [](\A c \in Callers :
            (calls[c].pc \in {"returned", "raised"}) =>
                /\ calls[c].outcome = SafeExtractJson(bot, calls[c].arg)
                /\ calls[c].parses <= 1)
    /\ [][client' = client /\ lazy_client' = lazy_client]_vars

\* C16 witness: two calls with different texts ran interleaved; one has
\* returned a value and the other has raised after its block was rejected
C16_Witness ==
    /\ calls[1].met /\ calls[2].met
    /\ calls[1].pc = "returned"
    /\ calls[1].parses = 1
    /\ calls[2].pc = "raised"
    /\ calls[2].outcome = Raised("ParseFailure")
    /\ calls[1].arg # calls[2].arg

\* v is a dict with the one key consistency_report, whose value is a dict of
\* the three lists errors, warnings and suggested_fixes, the last two empty
IsDefaultShape(v) ==
    /\ v.t = "obj"
    /\ DOMAIN v.v = {KeyConsistencyReport}
    /\ LET inner == v.v[KeyConsistencyReport]
       IN  /\ inner.t = "obj"
           /\ DOMAIN inner.v = {KeyErrors, KeyWarnings, KeySuggestedFixes}
           /\ inner.v[KeyErrors].t = "arr"
           /\ inner.v[KeyWarnings] = Arr(<<>>)
           /\ inner.v[KeySuggestedFixes] = Arr(<<>>)

\* C17: the extractor of the consistency checker never raises; for the empty
\* text, for a text with no open brace followed by a close brace, and for a
\* block the parser rejects, it returns the default report.
C17_DefaultReport ==
    (bot = "consistency") =>
        /\ pc # "raised"
        /\ Finished =>
              /\ outcome.kind = "value"
              /\ (\/ arg.text = <<>>
                  \/ NoBracePair(arg.text)
                  \/ parses = 1 /\ ~JsonLoads(json_text).ok)
                     => IsDefaultShape(outcome.val)

\* C17 witness: the parser rejected the block and the default report came back
C17_Witness ==
    /\ bot = "consistency"
    /\ Finished
    /\ parses = 1
    /\ ~JsonLoads(json_text).ok
    /\ outcome = Returned(DefaultReport("ParseFailure"))
    /\ IsDefaultShape(outcome.val)

\* ------------------------------------------------------ _get_openai_client
\* caller c calls _get_openai_client()
GetClientCall(c) ==
    /\ getters[c].pc = "idle"
    /\ getters' = [getters EXCEPT ![c].pc = "check"]
    /\ UNCHANGED <<bot, sequential_vars, calls, client, lazy_client, built>>

\* if _client is None:
GetClientCheck(c) ==
    /\ getters[c].pc = "check"
    /\ getters' = [getters EXCEPT ![c].pc =
                      IF lazy_client = NoClient THEN "read_key" ELSE "return"]
    /\ UNCHANGED <<bot, sequential_vars, calls, client, lazy_client, built>>

\* api_key = os.getenv(...), else st.secrets.get(...); if not api_key: raise
\* RuntimeError
GetClientReadKey(c) ==
    /\ getters[c].pc = "read_key"
    /\ \E key \in {"None", "key"} :
          getters' = [getters EXCEPT ![c].api_key = key,
                                     ![c].pc = IF key = "None" THEN "raised"
                                               ELSE "construct"]
    /\ UNCHANGED <<bot, sequential_vars, calls, client, lazy_client, built>>

\* OpenAI(api_key=api_key): the right-hand side of the assignment
GetClientConstruct(c) ==
    /\ getters[c].pc = "construct"
    /\ built' = built + 1
    /\ getters' = [getters EXCEPT ![c].made = built + 1, ![c].pc = "assign"]
    /\ UNCHANGED <<bot, sequential_vars, calls, client, lazy_client>>

\* _client = <the object built>
GetClientAssign(c) ==
    /\ getters[c].pc = "assign"
    /\ lazy_client' = getters[c].made
    /\ getters' = [getters EXCEPT ![c].pc = "return"]
    /\ UNCHANGED <<bot, sequential_vars, calls, client, built>>

\* return _client: the module-level name is read again
GetClientReturn(c) ==
    /\ getters[c].pc = "return"
    /\ getters' = [getters EXCEPT ![c].got = lazy_client, ![c].pc = "returned"]
    /\ UNCHANGED <<bot, sequential_vars, calls, client, lazy_client, built>>

\* the caller goes on, with the client it got or with the RuntimeError, and
\* may call again
GetClientDone(c) ==
    /\ getters[c].pc \in {"returned", "raised"}
    /\ getters' = [getters EXCEPT ![c] = [NoGetter EXCEPT !.got = getters[c].got]]
    /\ UNCHANGED <<bot, sequential_vars, calls, client, lazy_client, built>>

InitClient == bot = "prescription" /\ Idle

NextClient ==
    \E c \in Callers :
        \/ GetClientCall(c)
        \/ GetClientCheck(c)
        \/ GetClientReadKey(c)
        \/ GetClientConstruct(c)
        \/ GetClientAssign(c)
        \/ GetClientReturn(c)
        \/ GetClientDone(c)

SpecClient == InitClient /\ [][NextClient]_vars

\* C18: single shared client. In any interleaving of calls of
\* _get_openai_client at most one OpenAI object is ever built, and every
\* call that returns gives that same object.
C18_SingleClient ==
    /\ built <= 1
    /\ \A c \in Callers : getters[c].got \in {NoClient, 1}

\* two outcomes are equal values, or both are failures
SameResult(o1, o2) ==
    IF o1.kind = "value" THEN o2.kind = "value" /\ o1.val = o2.val
    ELSE o2.kind # "value"

\* C19: the copies of _safe_extract_json in the prescription, billing,
\* clinical-notes, pathology and procedure bots are the same operation: on
\* every text they return equal values, or they all fail.
C19_CopiesAgree ==
    (Finished /\ bot \in Bots) =>
        \A b \in Bots : SameResult(outcome, SafeExtractJson(b, arg.text))

\* C20: the final fallback of the clinical-notes bot. generate_clinical_notes_llm
\* never raises; when all 3 attempts have failed, in the completion call or
\* in the extraction, it returns the raw text of the last completion.
C20_FinalFallback ==
    (bot = "clinical_notes" /\ caller = "generate") =>
        /\ pc # "gen_raised"
        /\ (pc = "gen_returned" /\ Len(errors) = MaxAttempts) =>
              /\ result.kind = "raw"
              /\ result.val = Str(raw)
              /\ raw = arg.text

\* ------------------------------------------------- check_consistency_llm
\* check_consistency_llm(patient_record) is called; the prompt is built
CallCheckConsistency ==
    /\ pc = "idle"
    /\ caller' = "check"
    /\ requests' = 0
    /\ raw' = Unbound
    /\ result' = NoResult
    /\ pc' = "request"
    /\ UNCHANGED <<process_vars, bot, extractor_vars, attempt, last_error, errors>>

\* client.responses.create(...) returns; raw = response.output_text or "";
\* _safe_extract_json(raw) is entered
CheckCompletionReturns ==
    /\ caller = "check"
    /\ pc = "request"
    /\ requests' = requests + 1
    /\ \E out \in Completions :
          LET txt == IF out = NoText THEN <<>> ELSE out
          IN  /\ raw' = txt
              /\ Enter(Case("completion", txt, Null, txt))
    /\ UNCHANGED <<process_vars, bot, caller, attempt, last_error, errors, result>>

\* client.responses.create(...) raises: no try statement surrounds the call,
\* so the exception leaves check_consistency_llm
CheckCompletionFails ==
    /\ caller = "check"
    /\ pc = "request"
    /\ requests' = requests + 1
    /\ result' = [kind |-> "APIError", val |-> Null, cause |-> "None"]
    /\ pc' = "gen_raised"
    /\ UNCHANGED <<process_vars, bot, caller, extractor_vars, attempt, last_error,
                   raw, errors>>

\* return _safe_extract_json(raw)
CheckReturns ==
    /\ caller = "check"
    /\ pc = "returned"
    /\ result' = [kind |-> "value", val |-> outcome.val, cause |-> "None"]
    /\ pc' = "gen_returned"
    /\ UNCHANGED <<process_vars, bot, caller, extractor_vars, attempt, requests,
                   last_error, raw, errors>>

InitConsistency == bot = "consistency" /\ Idle

NextConsistency ==
    \/ CallCheckConsistency
    \/ CheckCompletionReturns
    \/ CheckCompletionFails
    \/ CheckEmpty
    \/ DoStripFences
    \/ DoScrubControl
    \/ DoSearch
    \/ DoRemoveTrailingCommas
    \/ DoParse
    \/ CheckReturns

SpecConsistency == InitConsistency /\ [][NextConsistency]_vars

\* C21: check_consistency_llm never breaks the pipeline. Whatever the
\* completion call does (a text, no text, an exception), the function
\* returns a dict and raises nothing.
C21_NeverBreaks ==
    (bot = "consistency" /\ caller = "check") =>
        /\ pc \notin {"raised", "gen_raised"}
        /\ (pc = "gen_returned" => result.kind = "value" /\ result.val.t = "obj")

\* ------------------------------------------------- generate_timeline_llm
BULLET == "BULLET"

\* pat in s
Contains(s, pat) ==
    \E i \in 1..(Len(s) - Len(pat) + 1) : SubSeq(s, i, i + Len(pat) - 1) = pat

HeaderSummary ==
    <<"T", "I", "M", "E", "L", "I", "N", "E", SP, "S", "U", "M", "M", "A",
      "R", "Y", COLON>>
HeaderTable ==
    <<"T", "I", "M", "E", "L", "I", "N", "E", SP, "T", "A", "B", "L", "E",
      COLON>>
FirstNumber == <<"1", ".">>

\* mutant: the round brackets are not in the list
Banned_NoParens ==
    <<LBRACK, RBRACK, LBRACE, RBRACE, "<", ">", "*", BULLET>>

\* banned = [...]
Banned ==
    <<LBRACK, RBRACK, LBRACE, RBRACE, "<", ">", "*", BULLET, "(", ")">>

\* for b in banned: text = text.replace(b, "")
RECURSIVE RemoveBanned(_, _)
RemoveBanned(s, i) ==
    IF i > Len(Banned) THEN s
    ELSE RemoveBanned(Replace(s, <<Banned[i]>>, <<>>), i + 1)

\* the three checks, in order: the ValueError raised, or "None"
TimelineError(s) ==
    IF ~Contains(s, HeaderSummary) THEN "MissingSummary"
    ELSE IF ~Contains(s, HeaderTable) THEN "MissingTable"
    ELSE IF ~Contains(s, FirstNumber) THEN "MissingNumbering"
    ELSE "None"

\* the pieces the completions of the timeline model are made of: the two
\* headers, whole or with a banned character inside, the numbering, alone
\* or followed by text in round brackets and other banned characters
MaxPieces == 3

TimelinePieces ==
    {HeaderSummary, HeaderTable, FirstNumber,
     SubSeq(HeaderSummary, 1, 12) \o <<LBRACK>> \o SubSeq(HeaderSummary, 13, 17),
     <<"1", ".", SP, "(", "x", ")", "*", BULLET, "<", "a", ">", RBRACE, LF>>}

RECURSIVE TextsOfPieces(_)
TextsOfPieces(n) ==
    IF n = 0 THEN {<<>>}
    ELSE TextsOfPieces(n - 1)
         \cup {txt \o p : txt \in TextsOfPieces(n - 1), p \in TimelinePieces}

TimelineCompletions == {NoText} \cup TextsOfPieces(MaxPieces)

\* generate_timeline_llm is called: last_error = None, the loop starts
CallTimeline ==
    /\ pc = "idle"
    /\ caller' = "timeline"
    /\ attempt' = 0
    /\ requests' = 0
    /\ last_error' = "None"
    /\ raw' = Unbound
    /\ errors' = <<>>
    /\ result' = NoResult
    /\ pc' = "request"
    /\ UNCHANGED <<process_vars, bot, extractor_vars>>

\* client.responses.create(...) returns; text = (response.output_text or "").strip()
TimelineCompletionReturns ==
    /\ caller = "timeline"
    /\ pc = "request"
    /\ attempt < MaxAttempts
    /\ requests' = requests + 1
    /\ \E out \in TimelineCompletions :
          /\ raw' = RawOf(out)
          /\ text' = RawOf(out)
    /\ pc' = "cleanup"
    /\ UNCHANGED <<process_vars, bot, caller, arg, json_text, outcome, searched,
                   parses, report, attempt, last_error, errors, result>>

\* client.responses.create(...) raises
TimelineCompletionFails ==
    /\ caller = "timeline"
    /\ pc = "request"
    /\ attempt < MaxAttempts
    /\ requests' = requests + 1
    /\ Catch("APIError")
    /\ UNCHANGED <<process_vars, bot, caller, extractor_vars, raw, result>>

\* the cleanup loop over banned
TimelineCleanup ==
    /\ caller = "timeline"
    /\ pc = "cleanup"
    /\ text' = RemoveBanned(text, 1)
    /\ pc' = "validate"
    /\ UNCHANGED <<process_vars, bot, caller, arg, json_text, outcome, searched,
                   parses, report, loop_vars>>

\* the header checks and the numbering check; return text, or the ValueError
\* is caught by the except clause of the loop
TimelineValidate ==
    /\ caller = "timeline"
    /\ pc = "validate"
    /\ IF TimelineError(text) = "None"
       THEN /\ result' = [kind |-> "text", val |-> Str(text), cause |-> "None"]
            /\ pc' = "gen_returned"
            /\ UNCHANGED <<attempt, last_error, errors>>
       ELSE /\ Catch(TimelineError(text))
            /\ UNCHANGED result
    /\ UNCHANGED <<process_vars, bot, caller, extractor_vars, requests, raw>>

\* raise ValueError(f"Timeline Bot failed after 3 attempts: {last_error}")
TimelineRaises ==
    /\ caller = "timeline"
    /\ pc = "exhausted"
    /\ result' = [kind |-> "ValueError", val |-> Null, cause |-> last_error]
    /\ pc' = "gen_raised"
    /\ UNCHANGED <<process_vars, bot, caller, extractor_vars, attempt, requests,
                   last_error, raw, errors>>

InitTimeline == bot = "timeline" /\ Idle

NextTimeline ==
    \/ CallTimeline
    \/ TimelineCompletionReturns
    \/ TimelineCompletionFails
    \/ TimelineCleanup
    \/ TimelineValidate
    \/ TimelineRaises

SpecTimeline == InitTimeline /\ [][NextTimeline]_vars

\* the characters the returned timeline must not hold
ForbiddenChars ==
    {LBRACK, RBRACK, LBRACE, RBRACE, "<", ">", "*", BULLET, "(", ")"}

\* the text holds the two headers and the first number
HasTimelineShape(s) ==
    /\ Contains(s, HeaderSummary)
    /\ Contains(s, HeaderTable)
    /\ Contains(s, FirstNumber)

\* C22: timeline validation. Every text generate_timeline_llm returns holds
\* both headers and the first number and none of the forbidden characters;
\* an attempt whose cleaned text lacks one of the three counts as failed;
\* after 3 failed attempts a ValueError is raised and no text is returned.
C22_TimelineValidated ==
    /\ []((caller = "timeline" /\ pc = "gen_returned") =>
            /\ result.kind = "text"
            /\ HasTimelineShape(result.val.v)
            /\ \A i \in 1..Len(result.val.v) : result.val.v[i] \notin ForbiddenChars
            /\ Len(errors) < 3)
    /\ []((caller = "timeline" /\ Len(errors) = 3) =>
            /\ pc \in {"exhausted", "gen_raised"}
            /\ (pc = "gen_raised" => result.kind = "ValueError")
            /\ result.kind # "text")
    /\ []((caller = "timeline" /\ pc = "gen_raised") => Len(errors) = 3)
    /\ [][(caller = "timeline" /\ pc = "validate" /\ ~HasTimelineShape(text)) =>
            (Len(errors') = Len(errors) + 1 /\ result' = result)]_vars

\* C22 witness: two attempts failed and the third returned a text whose
\* summary header appeared only when a bracket inside it was removed
C22_Witness ==
    /\ caller = "timeline"
    /\ pc = "gen_returned"
    /\ Len(errors) = 2
    /\ ~Contains(raw, HeaderSummary)
    /\ result.val = Str(text)
    /\ raw # text

\* ------------------------------------------------ route_to_specialist_bot
BotExplainer ==
    <<"E", "X", "P", "L", "A", "I", "N", "E", "R">>
BotLabs ==
    <<"L", "A", "B", "S">>
BotMeds ==
    <<"M", "E", "D", "S">>
BotCareplan ==
    <<"C", "A", "R", "E", "P", "L", "A", "N">>
BotSnapshot ==
    <<"S", "N", "A", "P", "S", "H", "O", "T">>
BotSupport ==
    <<"S", "U", "P", "P", "O", "R", "T">>
BotPrescriptions ==
    <<"P", "R", "E", "S", "C", "R", "I", "P", "T", "I", "O", "N", "S">>
BotOutOfScope ==
    <<"O", "U", "T", "_", "O", "F", "_", "S", "C", "O", "P", "E">>

\* the set the router tests bot_name against
ValidBots ==
    {BotExplainer, BotLabs, BotMeds, BotCareplan, BotSnapshot, BotSupport,
     BotPrescriptions, BotOutOfScope}

KeyBot == <<"b", "o", "t">>
KeyReason == <<"r", "e", "a", "s", "o", "n">>

LowerLetters ==
    <<"a", "b", "c", "d", "e", "f", "g", "h", "i", "j", "k", "l", "m", "n",
      "o", "p", "q", "r", "s", "t", "u", "v", "w", "x", "y", "z">>
UpperLetters ==
    <<"A", "B", "C", "D", "E", "F", "G", "H", "I", "J", "K", "L", "M", "N",
      "O", "P", "Q", "R", "S", "T", "U", "V", "W", "X", "Y", "Z">>

\* str.upper() on one character
UpperChar(c) ==
    IF \E i \in 1..Len(LowerLetters) : LowerLetters[i] = c
    THEN UpperLetters[CHOOSE i \in 1..Len(LowerLetters) : LowerLetters[i] = c]
    ELSE c

\* str.upper()
RECURSIVE Upper(_)
Upper(s) == IF s = <<>> THEN <<>> ELSE <<UpperChar(Head(s))>> \o Upper(Tail(s))

\* the texts the "bot" member of the reply is written as: the eight names,
\* names in another case or with a blank, unknown names, and values that are
\* not strings
Quoted(s) == <<QT>> \o s \o <<QT>>

BotFieldTexts ==
    {Quoted(n) : n \in ValidBots}
    \cup {Quoted(<<"l", "a", "b", "s">>), Quoted(<<"M", "e", "d", "s">>),
          Quoted(<<"o", "u", "t", "_", "o", "f", "_", "s", "c", "o", "p", "e">>),
          Quoted(<<SP>> \o BotLabs), Quoted(<<"B", "I", "L", "L", "I", "N", "G">>),
          Quoted(<<>>), <<"5">>, <<"n", "u", "l", "l">>, <<"t", "r", "u", "e">>,
          <<LBRACK>> \o Quoted(BotLabs) \o <<RBRACK>>,
          <<LBRACE>> \o Quoted(KeyBot) \o <<COLON>> \o Quoted(BotMeds) \o <<RBRACE>>}

ReasonMember == Quoted(KeyReason) \o <<COLON, SP>> \o Quoted(<<"x">>)

\* objects with a "bot" member
BotObjectTexts ==
    {<<LBRACE>> \o Quoted(KeyBot) \o <<COLON, SP>> \o f \o <<RBRACE>> :
        f \in BotFieldTexts}
    \cup {<<LBRACE>> \o Quoted(KeyBot) \o <<COLON>> \o f \o <<COMMA, SP>>
          \o ReasonMember \o <<RBRACE>> : f \in BotFieldTexts}

\* the replies of the classification call; NoText is a message without content
RouterReplies ==
    BotObjectTexts
    \cup {FenceJson \o <<LF>> \o o \o <<LF>> \o Fence : o \in BotObjectTexts}
    \cup {<<LBRACE, RBRACE>>, <<LBRACE>> \o ReasonMember \o <<RBRACE>>,
          <<LBRACK>> \o Quoted(BotLabs) \o <<RBRACK>>, Quoted(BotLabs),
          <<"5">>, <<"n", "u", "l", "l">>, BotLabs, <<>>,
          <<"b", "o", "t", COLON, SP>> \o BotMeds,
          <<LBRACE>> \o Quoted(KeyBot) \o <<COLON>> \o Quoted(BotLabs),
          <<LBRACE>> \o Quoted(KeyBot) \o <<COLON>> \o Quoted(BotLabs) \o <<COMMA>>
          \o Quoted(KeyBot) \o <<COLON>> \o Quoted(BotMeds) \o <<RBRACE>>,
          NoText}

\* route_to_specialist_bot is called
CallRouter ==
    /\ pc = "idle"
    /\ caller' = "router"
    /\ requests' = 0
    /\ raw' = Unbound
    /\ result' = NoResult
    /\ pc' = "request"
    /\ UNCHANGED <<process_vars, bot, extractor_vars, attempt, last_error, errors>>

\* client.chat.completions.create(...).choices[0].message.content
RouterCompletionReturns ==
    /\ caller = "router"
    /\ pc = "request"
    /\ requests' = requests + 1
    /\ \E resp \in RouterReplies : text' = resp
    /\ pc' = "router_clean"
    /\ UNCHANGED <<process_vars, bot, caller, arg, json_text, outcome, searched,
                   parses, report, attempt, last_error, raw, errors, result>>

\* the completion call raises: it stands before the try statement
RouterCompletionFails ==
    /\ caller = "router"
    /\ pc = "request"
    /\ requests' = requests + 1
    /\ result' = [kind |-> "APIError", val |-> Null, cause |-> "None"]
    /\ pc' = "gen_raised"
    /\ UNCHANGED <<process_vars, bot, caller, extractor_vars, attempt,
                   last_error, raw, errors>>

\* except Exception: bot_name = "EXPLAINER"
RouterExcept ==
    /\ raw' = BotExplainer
    /\ pc' = "router_check"

\* clean = resp.replace(fence json, "").replace(fence, "").strip()
RouterClean ==
    /\ caller = "router"
    /\ pc = "router_clean"
    /\ IF text = NoText
       THEN RouterExcept /\ UNCHANGED json_text
       ELSE /\ json_text' = StripFences(text)
            /\ pc' = "router_loads"
            /\ UNCHANGED raw
    /\ UNCHANGED <<process_vars, bot, caller, arg, text, outcome, searched,
                   parses, report, attempt, requests, last_error, errors, result>>

\* json.loads(clean)
RouterLoads ==
    /\ caller = "router"
    /\ pc = "router_loads"
    /\ parses' = parses + 1
    /\ LET r == JsonLoads(json_text) IN
       IF r.ok
       THEN /\ outcome' = Returned(r.val)
            /\ pc' = "router_get"
            /\ UNCHANGED raw
       ELSE RouterExcept /\ UNCHANGED outcome
    /\ UNCHANGED <<process_vars, bot, caller, arg, text, json_text, searched,
                   report, attempt, requests, last_error, errors, result>>

\* mutant: the AttributeError of .get or .upper leaves the function
RouterGetBot_Raises ==
    /\ caller = "router"
    /\ pc = "router_get"
    /\ LET x == outcome.val
           named == IF x.t = "obj" /\ KeyBot \in DOMAIN x.v
                    THEN x.v[KeyBot] ELSE Str(BotExplainer) IN
       IF x.t = "obj" /\ named.t = "str"
       THEN /\ raw' = Upper(named.v)
            /\ pc' = "router_check"
            /\ UNCHANGED result
       ELSE /\ result' = [kind |-> "AttributeError", val |-> Null, cause |-> "None"]
            /\ pc' = "gen_raised"
            /\ UNCHANGED raw
    /\ UNCHANGED <<process_vars, bot, caller, extractor_vars, attempt, requests,
                   last_error, errors>>

\* .get("bot", "EXPLAINER").upper(): AttributeError when the value is not a
\* dict or the member is not a string
RouterGetBot ==
    /\ caller = "router"
    /\ pc = "router_get"
    /\ LET x == outcome.val
           named == IF x.t = "obj" /\ KeyBot \in DOMAIN x.v
                    THEN x.v[KeyBot] ELSE Str(BotExplainer) IN
       IF x.t = "obj" /\ named.t = "str"
       THEN /\ raw' = Upper(named.v)
            /\ pc' = "router_check"
       ELSE RouterExcept
    /\ UNCHANGED <<process_vars, bot, caller, extractor_vars, attempt, requests,
                   last_error, errors, result>>

\* if bot_name not in {...}: bot_name = "EXPLAINER"; return bot_name
RouterReturns ==
    /\ caller = "router"
    /\ pc = "router_check"
    /\ result' = [kind |-> "value",
                  val |-> Str(IF raw \notin ValidBots THEN BotExplainer ELSE raw),
                  cause |-> "None"]
    /\ pc' = "gen_returned"
    /\ UNCHANGED <<process_vars, bot, caller, extractor_vars, attempt, requests,
                   last_error, raw, errors>>

InitRouter == bot = "chat_app" /\ Idle

NextRouter ==
    \/ CallRouter
    \/ RouterCompletionReturns
    \/ RouterCompletionFails
    \/ RouterClean
    \/ RouterLoads
    \/ RouterGetBot
    \/ RouterReturns

SpecRouter == InitRouter /\ [][NextRouter]_vars

\* the eight results the router may give
RouterResultSet ==
    {BotExplainer, BotLabs, BotMeds, BotCareplan, BotSnapshot, BotSupport,
     BotPrescriptions, BotOutOfScope}

\* the reply, without its fences, is a JSON object
ReplyIsObject(resp) ==
    /\ resp # NoText
    /\ JsonLoads(StripFences(resp)).ok
    /\ JsonLoads(StripFences(resp)).val.t = "obj"

\* the reply is an object whose "bot" member is a string: that string
NamesBot(resp) ==
    /\ ReplyIsObject(resp)
    /\ KeyBot \in DOMAIN JsonLoads(StripFences(resp)).val.v
    /\ JsonLoads(StripFences(resp)).val.v[KeyBot].t = "str"

NamedBot(resp) == JsonLoads(StripFences(resp)).val.v[KeyBot].v

\* the reply cannot be parsed: not JSON, not an object, or a "bot" member that
\* is not a string
Unparseable(resp) ==
    \/ ~ReplyIsObject(resp)
    \/ /\ KeyBot \in DOMAIN JsonLoads(StripFences(resp)).val.v
       /\ ~NamesBot(resp)

C23_WitnessNotObject ==
    /\ caller = "router"
    /\ pc = "gen_returned"
    /\ text # NoText
    /\ JsonLoads(StripFences(text)).ok
    /\ ~ReplyIsObject(text)
    /\ result.val.v = BotExplainer

\* ------------------------------------------------ the chat application
\* (src/app_synthetic/chat_app.py: the Streamlit script, its session state
\* and generate_orchestrated_response)
EMDASH == "EMDASH"
GLOBE == "GLOBE"

Users == {"u1", "u2"}

\* the chat turns one conversation may hold before it is cleared
MaxTurns == 1

\* return f"### (globe) Web Search Result\n\n{webresult}"
WebHeader ==
    <<"#", "#", "#", SP, GLOBE, SP, "W", "e", "b", SP, "S", "e", "a", "r",
      "c", "h", SP, "R", "e", "s", "u", "l", "t", LF, LF>>

\* run_websearch: resp.output_text or "No web search result text was returned."
MsgNoWebText ==
    <<"N", "o", SP, "w", "e", "b", SP, "s", "e", "a", "r", "c", "h", SP, "r",
      "e", "s", "u", "l", "t", SP, "t", "e", "x", "t", SP, "w", "a", "s", SP,
      "r", "e", "t", "u", "r", "n", "e", "d", ".">>

\* run_websearch: f"Web search is not available in this environment: {e}"
MsgWebUnavailable ==
    <<"W", "e", "b", SP, "s", "e", "a", "r", "c", "h", SP, "i", "s", SP, "n",
      "o", "t", SP, "a", "v", "a", "i", "l", "a", "b", "l", "e", SP, "i",
      "n", SP, "t", "h", "i", "s", SP, "e", "n", "v", "i", "r", "o", "n",
      "m", "e", "n", "t", COLON, SP>>

\* the refusal returned for OUT_OF_SCOPE
RefusalText ==
    <<"I", "'", "m", SP, "M", "e", "d", "i", "E", "x", "p", "l", "a", "i",
      "n", SP, EMDASH, SP, "I", SP, "c", "a", "n", SP, "o", "n", "l", "y",
      SP, "h", "e", "l", "p", SP, "w", "i", "t", "h", SP, "*", "y", "o", "u",
      "r", SP, "m", "e", "d", "i", "c", "a", "l", SP, "r", "e", "p", "o",
      "r", "t", "*", COMMA, SP, "y", "o", "u", "r", SP, "l", "a", "b", "s",
      COMMA, SP, "m", "e", "d", "i", "c", "a", "t", "i", "o", "n", "s",
      COMMA, SP, "c", "a", "r", "e", SP, "p", "l", "a", "n", COMMA, SP, "o",
      "r", SP, "c", "l", "i", "n", "i", "c", "a", "l", SP, "e", "x", "p",
      "l", "a", "n", "a", "t", "i", "o", "n", "s", ".", LF, LF, "T", "h",
      "i", "s", SP, "q", "u", "e", "s", "t", "i", "o", "n", SP, "a", "p",
      "p", "e", "a", "r", "s", SP, "t", "o", SP, "b", "e", SP, "o", "u", "t",
      "s", "i", "d", "e", SP, "t", "h", "a", "t", SP, "s", "c", "o", "p",
      "e", ".", SP, "P", "l", "e", "a", "s", "e", SP, "a", "s", "k", SP, "s",
      "o", "m", "e", "t", "h", "i", "n", "g", SP, "r", "e", "l", "a", "t",
      "e", "d", SP, "t", "o", SP, "t", "h", "e", SP, "p", "r", "o", "v", "i",
      "d", "e", "d", SP, "m", "e", "d", "i", "c", "a", "l", SP, "r", "e",
      "p", "o", "r", "t", ".">>

\* f"\n\n---\n_Answered by: **{chosen_bot} bot**_"
Footer(b) ==
    <<LF, LF, "-", "-", "-", LF, "_", "A", "n", "s", "w", "e", "r", "e", "d",
      SP, "b", "y", COLON, SP, "*", "*">> \o b \o
    <<SP, "b", "o", "t", "*", "*", "_">>

EndsWith(s, pat) ==
    Len(s) >= Len(pat) /\ SubSeq(s, Len(s) - Len(pat) + 1, Len(s)) = pat

\* a def statement: the parameter names in order, and how many of them have
\* no default value
Signature(ps, req) == [params |-> ps, required |-> req]

\* the name is not bound in the module
Missing == [params |-> <<"missing">>, required |-> 0]

BotParams == <<"user_input", "mode", "pdf_text", "memory_snippets">>

\* the def statement of each bot's entry point, as chat_app imports it
EntryPoint(b) ==
    IF b \in {BotLabs, BotMeds, BotCareplan, BotPrescriptions}
    THEN Signature(BotParams \o <<"conversation_history">>, 4)
    ELSE IF b = BotSupport THEN Signature(BotParams, 4)
    ELSE IF b = BotExplainer
    THEN Signature(<<"mode", "report_text", "user_question",
                     "conversation_history">>, 2)
    ELSE Missing

\* the call the orchestrator writes for every bot: four positional arguments
\* and conversation_history=...
DispatchCall == [npos |-> 4, kws |-> {"conversation_history"}]

\* Python binds the arguments of call c to the parameters of sig without a
\* TypeError
Binds(sig, c) ==
    /\ sig # Missing
    /\ c.npos <= Len(sig.params)
    /\ \A k \in c.kws :
          \E i \in (c.npos + 1)..Len(sig.params) : sig.params[i] = k
    /\ \A i \in 1..sig.required : i <= c.npos \/ sig.params[i] \in c.kws

\* the body of the entry point can reach its return statement: run_meds and
\* run_prescriptions call .strip() on the dict search_meds_knowledge returns
BodyCanReturn(b) == b \in {BotLabs, BotCareplan}

\* the name of the entry point, as the trace records it
RunName(b) == <<"r", "u", "n", "_">> \o b

\* mutant: the medication lookup is made for every bot
NeedsMedsRag_All(b) == TRUE

\* if chosen_bot in {"MEDS", "PRESCRIPTIONS"}
NeedsMedsRag(b) == b \in {BotMeds, BotPrescriptions}

Question == <<"q">>

Message(r, c) == [role |-> r, content |-> c]

LoggedIn == session.user_id # "None"

\* what the actions of the chat application leave alone
outside_chat ==
    <<bot, extractor_vars, attempt, requests, raw, errors, prev, calls, client,
      lazy_client, built, getters, frame>>

Called(name) == [fn |-> name, bot |-> <<>>]
Ran(b) == [fn |-> "run_bot", bot |-> RunName(b)]

Reply(txt, from) == [kind |-> "value", val |-> Str(txt), cause |-> from]

\* "Continue" with a non-blank login id
Login(u) ==
    /\ pc = "idle"
    /\ ~LoggedIn
    /\ session' = [session EXCEPT !.user_id = u]
    /\ UNCHANGED <<outside_chat, caller, pc, result, last_error, trace,
                   chosen_bot, memory>>

\* the "Logout" button
Logout ==
    /\ pc = "idle"
    /\ LoggedIn
    /\ session' = [session EXCEPT !.user_id = "None", !.messages = <<>>,
                                  !.pdf_text = <<>>, !.file_id = "None",
                                  !.vector_store_id = "None"]
    /\ UNCHANGED <<outside_chat, caller, pc, result, last_error, trace,
                   chosen_bot, memory>>

\* the sidebar toggle with key "web_search_enabled"
ToggleWebSearch ==
    /\ pc = "idle"
    /\ LoggedIn
    /\ session' = [session EXCEPT !.web_search_enabled = ~@]
    /\ UNCHANGED <<outside_chat, caller, pc, result, last_error, trace,
                   chosen_bot, memory>>

\* a PDF is uploaded: its text is extracted and stored, then the vector store
\* is created; when the create call raises the script run ends there
UploadPdf ==
    /\ pc = "idle"
    /\ LoggedIn
    /\ \E extracted \in {<<>>, <<"p">>}, created \in BOOLEAN :
          session' = [session EXCEPT
                         !.pdf_text = Strip(extracted),
                         !.vector_store_id = IF created THEN "vs" ELSE @]
    /\ UNCHANGED <<outside_chat, caller, pc, result, last_error, trace,
                   chosen_bot, memory>>

\* the "Clear Conversation" button
ClearConversation ==
    /\ pc = "idle"
    /\ LoggedIn
    /\ session' = [session EXCEPT !.messages = <<>>]
    /\ UNCHANGED <<outside_chat, caller, pc, result, last_error, trace,
                   chosen_bot, memory>>

\* a question is typed: it is appended to the messages and
\* generate_orchestrated_response is called, which first formats the history
ChatInput ==
    /\ pc = "idle"
    /\ LoggedIn
    /\ Len(session.messages) < 2 * MaxTurns
    /\ session' = [session EXCEPT !.messages = Append(@, Message("user", Question))]
    /\ caller' = "chat"
    /\ trace' = <<Called("get_conversation_history")>>
    /\ chosen_bot' = Unbound
    /\ result' = NoResult
    /\ last_error' = "None"
    /\ pc' = "orch_web"
    /\ UNCHANGED <<outside_chat, memory>>

\* 1) web search, when the toggle is on: run_websearch catches every
\* exception and returns a text
OrchWeb ==
    /\ pc = "orch_web"
    /\ IF session.web_search_enabled
       THEN \E webresult \in {<<"w">>, MsgNoWebText, MsgWebUnavailable \o <<"e">>} :
               /\ trace' = Append(trace, Called("run_websearch"))
               /\ session' = [session EXCEPT !.latest_web_refs = webresult]
               /\ result' = Reply(WebHeader \o webresult, "web")
               /\ pc' = "orch_returned"
       ELSE /\ pc' = "orch_memory"
            /\ UNCHANGED <<trace, session, result>>
    /\ UNCHANGED <<outside_chat, caller, last_error, chosen_bot, memory>>

\* 2) memory.retrieve_memory(user_id, user_input, k=5), which returns [] when
\* the query raises
OrchMemory ==
    /\ pc = "orch_memory"
    /\ trace' = Append(trace, Called("retrieve_memory"))
    /\ pc' = "orch_route"
    /\ UNCHANGED <<outside_chat, caller, session, result, last_error,
                   chosen_bot, memory>>

\* 3) route_to_specialist_bot returns one of its eight names, or its
\* completion call raises; OUT_OF_SCOPE returns the refusal
OrchRoute ==
    /\ pc = "orch_route"
    /\ trace' = Append(trace, Called("route_to_specialist_bot"))
    /\ \/ /\ result' = [kind |-> "APIError", val |-> Null, cause |-> "router"]
          /\ pc' = "orch_raised"
          /\ UNCHANGED chosen_bot
       \/ \E b \in ValidBots :
             /\ chosen_bot' = b
             /\ IF b = BotOutOfScope
                THEN result' = Reply(RefusalText, "refusal") /\ pc' = "orch_returned"
                ELSE pc' = "orch_pdf" /\ UNCHANGED result
    /\ UNCHANGED <<outside_chat, caller, session, last_error, memory>>

\* 4) search_pdf_context: "" without a vector store, else a file_search
\* request that returns or raises
OrchPdf ==
    /\ pc = "orch_pdf"
    /\ trace' = Append(trace, Called("search_pdf_context"))
    /\ \/ pc' = "orch_rag" /\ UNCHANGED result
       \/ /\ session.vector_store_id # "None"
          /\ result' = [kind |-> "APIError", val |-> Null, cause |-> "file_search"]
          /\ pc' = "orch_raised"
    /\ UNCHANGED <<outside_chat, caller, session, last_error, chosen_bot, memory>>

\* the vector_store_id argument of search_meds_knowledge(user_input, top_k=5):
\* the default of the parameter
OrchVectorStoreArg == "None"

\* 5) medication RAG: the call raises ValueError for a missing
\* vector_store_id and the except clause empties latest_meds_rag_chunks
OrchRag ==
    /\ pc = "orch_rag"
    /\ IF NeedsMedsRag(chosen_bot)
       THEN /\ trace' = Append(trace, Called("search_meds_knowledge"))
            /\ IF OrchVectorStoreArg = "None"
               THEN session' = [session EXCEPT !.latest_meds_rag_chunks = <<>>]
               ELSE \E cs \in {<<>>, <<"chunk">>} :
                       session' = [session EXCEPT !.latest_meds_rag_chunks = cs]
       ELSE UNCHANGED <<trace, session>>
    /\ pc' = "orch_bot"
    /\ UNCHANGED <<outside_chat, caller, result, last_error, chosen_bot, memory>>

\* 6) the call of the chosen bot inside the try statement: a name that is not
\* bound, arguments the def statement rejects, a body that raises, or a reply
OrchBot ==
    /\ pc = "orch_bot"
    /\ LET sig == EntryPoint(chosen_bot) IN
       IF sig = Missing
       THEN /\ last_error' = "NameError"
            /\ pc' = "orch_fallback"
            /\ UNCHANGED <<trace, result>>
       ELSE IF ~Binds(sig, DispatchCall)
       THEN /\ last_error' = "TypeError"
            /\ pc' = "orch_fallback"
            /\ UNCHANGED <<trace, result>>
       ELSE /\ trace' = Append(trace, Ran(chosen_bot))
            /\ \/ /\ BodyCanReturn(chosen_bot)
                  /\ result' = Reply(<<"b">> \o Footer(chosen_bot), "bot")
                  /\ pc' = "orch_returned"
                  /\ UNCHANGED last_error
               \/ /\ last_error' = "BotError"
                  /\ pc' = "orch_fallback"
                  /\ UNCHANGED result
    /\ UNCHANGED <<outside_chat, caller, session, chosen_bot, memory>>

\* 7) except Exception: the fallback completion; its own failure, or a
\* message without content, leaves the function
OrchFallback ==
    /\ pc = "orch_fallback"
    /\ trace' = Append(trace, Called("fallback_completion"))
    /\ \/ /\ result' = [kind |-> "APIError", val |-> Null, cause |-> "fallback"]
          /\ pc' = "orch_raised"
       \/ \E content \in {<<"f", LF>>, NoText} :
             IF content = NoText
             THEN /\ result' = [kind |-> "AttributeError", val |-> Null,
                                cause |-> "fallback"]
                  /\ pc' = "orch_raised"
             ELSE /\ result' = Reply(Strip(content), "fallback")
                  /\ pc' = "orch_returned"
    /\ UNCHANGED <<outside_chat, caller, session, last_error, chosen_bot, memory>>

\* the reply is appended to the messages; extract_memory_snippet may give a
\* snippet, which memory.add_memory stores under the user
ChatAppend ==
    /\ pc = "orch_returned"
    /\ session' = [session EXCEPT
                      !.messages = Append(@, Message("assistant", result.val.v))]
    /\ \E snippet \in BOOLEAN :
          memory' = IF snippet THEN memory \cup {session.user_id} ELSE memory
    /\ pc' = "idle"
    /\ UNCHANGED <<outside_chat, caller, result, last_error, trace, chosen_bot>>

\* the exception ends the script run; the session state stays as it is
ChatCrash ==
    /\ pc = "orch_raised"
    /\ pc' = "idle"
    /\ UNCHANGED <<outside_chat, caller, result, last_error, session, trace,
                   chosen_bot, memory>>

InitChat == bot = "chat_app" /\ Idle

NextChat ==
    \/ \E u \in Users : Login(u)
    \/ Logout
    \/ ToggleWebSearch
    \/ UploadPdf
    \/ ClearConversation
    \/ ChatInput
    \/ OrchWeb
    \/ OrchMemory
    \/ OrchRoute
    \/ OrchPdf
    \/ OrchRag
    \/ OrchBot
    \/ OrchFallback
    \/ ChatAppend
    \/ ChatCrash

SpecChat == InitChat /\ [][NextChat]_vars

\* the names of the calls in trace, in order
InTrace(name) == \E i \in 1..Len(trace) : trace[i].fn = name

Before(a, b) ==
    \A j \in 1..Len(trace) :
        trace[j].fn = b => \E i \in 1..(j - 1) : trace[i].fn = a

\* the orchestrator has returned or raised and no later call has started
OrchDone == caller = "chat" /\ pc \in {"orch_returned", "orch_raised"}

\* C24: orchestrator short circuits and ordering. With web search enabled the
\* web result is returned and neither memory retrieval, routing, PDF search,
\* medication RAG nor a bot runs; for OUT_OF_SCOPE the refusal is returned and
\* neither PDF search, medication RAG nor a bot runs; otherwise routing comes
\* before PDF search, and medication RAG is queried only for MEDS and
\* PRESCRIPTIONS.
C24_ShortCircuits ==
    /\ (OrchDone /\ session.web_search_enabled) =>
          /\ pc = "orch_returned"
          /\ result.val.v = WebHeader \o session.latest_web_refs
          /\ trace = <<Called("get_conversation_history"), Called("run_websearch")>>
    /\ InTrace("run_websearch") =>
          \A i \in 1..Len(trace) :
              trace[i].fn \in {"get_conversation_history", "run_websearch"}
    /\ (OrchDone /\ chosen_bot = BotOutOfScope) =>
          /\ pc = "orch_returned"
          /\ result.val.v = RefusalText
          /\ trace = <<Called("get_conversation_history"),
                       Called("retrieve_memory"),
                       Called("route_to_specialist_bot")>>
    /\ chosen_bot = BotOutOfScope =>
          /\ ~InTrace("search_pdf_context")
          /\ ~InTrace("search_meds_knowledge")
          /\ ~InTrace("run_bot")
          /\ ~InTrace("fallback_completion")
    /\ Before("retrieve_memory", "route_to_specialist_bot")
    /\ Before("route_to_specialist_bot", "search_pdf_context")
    /\ Before("search_pdf_context", "search_meds_knowledge")
    /\ Before("search_pdf_context", "run_bot")
    /\ InTrace("search_meds_knowledge") => chosen_bot \in {BotMeds, BotPrescriptions}
    /\ (caller = "chat" /\ pc \in {"orch_bot", "orch_fallback"}
          /\ chosen_bot \in {BotMeds, BotPrescriptions})
          => InTrace("search_meds_knowledge")

\* C24 witness: a MEDS question got past PDF search and the medication lookup
\* to the bot, in that order
C24_Witness ==
    /\ caller = "chat"
    /\ pc = "orch_bot"
    /\ chosen_bot = BotMeds
    /\ trace = <<Called("get_conversation_history"), Called("retrieve_memory"),
                 Called("route_to_specialist_bot"), Called("search_pdf_context"),
                 Called("search_meds_knowledge")>>

\* C24 witness of the two short circuits: a web answer, and a refusal
C24_WitnessWeb ==
    /\ OrchDone
    /\ session.web_search_enabled
    /\ result.cause = "web"

C24_WitnessRefusal ==
    /\ OrchDone
    /\ chosen_bot = BotOutOfScope
    /\ result.cause = "refusal"

\* the bots the orchestrator dispatches to
SpecialistBots ==
    {BotLabs, BotMeds, BotCareplan, BotSnapshot, BotSupport, BotPrescriptions,
     BotExplainer}

\* C25: specialist dispatch and fallback. For each chosen bot the orchestrator
\* calls that bot's run_* entry point with arguments it accepts; a reply of
\* the bot ends with the footer naming the chosen bot; the fallback
\* completion is used only when the bot itself raised, and its text carries
\* no footer.
C25_DispatchAndFallback ==
    caller = "chat" =>
        /\ (pc = "orch_bot" /\ chosen_bot \in SpecialistBots) =>
              Binds(EntryPoint(chosen_bot), DispatchCall)
        /\ (pc = "orch_returned" /\ result.cause = "bot") =>
              EndsWith(result.val.v, Footer(chosen_bot))
        /\ InTrace("fallback_completion") => last_error = "BotError"
        /\ (pc = "orch_returned" /\ result.cause = "fallback") =>
              ~EndsWith(result.val.v, Footer(chosen_bot))

\* C28: Logout leaves nothing of the previous user in the session. After any
\* chat turns, uploads and web searches followed by Logout, user_id, file_id
\* and vector_store_id are None, messages and pdf_text are empty, and
\* latest_web_refs and latest_meds_rag_chunks are back at their initial values.
C28_LogoutClears ==
    [][(LoggedIn /\ session'.user_id = "None") =>
          (/\ session'.file_id = NoSession.file_id
           /\ session'.vector_store_id = NoSession.vector_store_id
           /\ session'.messages = NoSession.messages
           /\ session'.pdf_text = NoSession.pdf_text
           /\ session'.latest_web_refs = NoSession.latest_web_refs
           /\ session'.latest_meds_rag_chunks = NoSession.latest_meds_rag_chunks)]_vars

\* ------------------------------------------------ the support bot
\* (src/app/bots/support_bot.py)
RSQUO == "RSQUO"

CrisisHeader ==
    <<"I", RSQUO, "m", SP, "r", "e", "a", "l", "l", "y", SP, "s", "o", "r",
      "r", "y", SP, "y", "o", "u", RSQUO, "r", "e", SP, "f", "e", "e", "l",
      "i", "n", "g", SP, "t", "h", "i", "s", SP, "w", "a", "y", ".", SP, "Y",
      "o", "u", RSQUO, "r", "e", SP, "n", "o", "t", SP, "a", "l", "o", "n",
      "e", COMMA, SP, "a", "n", "d", SP, "y", "o", "u", "r", SP, "s", "a",
      "f", "e", "t", "y", SP, "m", "a", "t", "t", "e", "r", "s", ".", LF, LF,
      "I", SP, "a", "m", SP, "*", "*", "n", "o", "t", "*", "*", SP, "a", SP,
      "c", "r", "i", "s", "i", "s", SP, "s", "e", "r", "v", "i", "c", "e",
      SP, "o", "r", SP, "a", SP, "c", "l", "i", "n", "i", "c", "i", "a", "n",
      COMMA, SP, "b", "u", "t", SP, "I", SP, "c", "a", "n", SP, "h", "e",
      "l", "p", SP, "y", "o", "u", SP, "f", "i", "n", "d", SP, "r", "e", "a",
      "l", SP, "p", "e", "o", "p", "l", "e", SP, "w", "h", "o", SP, "c", "a",
      "n", SP, "s", "u", "p", "p", "o", "r", "t", SP, "y", "o", "u", SP, "r",
      "i", "g", "h", "t", SP, "n", "o", "w", ".", LF, LF, "*", "*", "I", "f",
      SP, "y", "o", "u", SP, "f", "e", "e", "l", SP, "y", "o", "u", SP, "m",
      "i", "g", "h", "t", SP, "a", "c", "t", SP, "o", "n", SP, "t", "h", "e",
      "s", "e", SP, "t", "h", "o", "u", "g", "h", "t", "s", SP, "o", "r", SP,
      "a", "r", "e", SP, "i", "n", SP, "i", "m", "m", "e", "d", "i", "a",
      "t", "e", SP, "d", "a", "n", "g", "e", "r", COMMA, "*", "*", SP, "p",
      "l", "e", "a", "s", "e", SP, "c", "o", "n", "t", "a", "c", "t", SP,
      "y", "o", "u", "r", SP, "l", "o", "c", "a", "l", SP, "e", "m", "e",
      "r", "g", "e", "n", "c", "y", SP, "s", "e", "r", "v", "i", "c", "e",
      "s", SP, "(", "s", "u", "c", "h", SP, "a", "s", SP, "9", "1", "1", SP,
      "i", "n", SP, "t", "h", "e", SP, "U", "n", "i", "t", "e", "d", SP, "S",
      "t", "a", "t", "e", "s", ")", SP, "o", "r", SP, "g", "o", SP, "t", "o",
      SP, "t", "h", "e", SP, "n", "e", "a", "r", "e", "s", "t", SP, "e", "m",
      "e", "r", "g", "e", "n", "c", "y", SP, "r", "o", "o", "m", ".", LF, LF,
      "I", "n", SP, "t", "h", "e", SP, "U", ".", "S", ".", COMMA, SP, "y",
      "o", "u", SP, "c", "a", "n", SP, "a", "l", "s", "o", SP, "c", "a", "l",
      "l", SP, "o", "r", SP, "t", "e", "x", "t", SP, "*", "*", "9", "8", "8",
      "*", "*", SP, "t", "o", SP, "r", "e", "a", "c", "h", SP, "t", "h", "e",
      SP, "S", "u", "i", "c", "i", "d", "e", SP, "&", SP, "C", "r", "i", "s",
      "i", "s", SP, "L", "i", "f", "e", "l", "i", "n", "e", ".", SP, "T",
      "h", "e", "y", SP, "a", "r", "e", SP, "a", "v", "a", "i", "l", "a",
      "b", "l", "e", SP, "2", "4", "/", "7", ".">>

LookupFailedBlock ==
    <<LF, LF, "-", "-", "-", LF, LF, "I", SP, "t", "r", "i", "e", "d", SP,
      "t", "o", SP, "l", "o", "o", "k", SP, "u", "p", SP, "n", "e", "a", "r",
      "b", "y", SP, "c", "l", "i", "n", "i", "c", "s", SP, "b", "u", "t", SP,
      "r", "a", "n", SP, "i", "n", "t", "o", SP, "a", SP, "t", "e", "c", "h",
      "n", "i", "c", "a", "l", SP, "p", "r", "o", "b", "l", "e", "m", ".",
      SP, "Y", "o", "u", SP, "c", "a", "n", SP, "s", "t", "i", "l", "l", SP,
      "r", "e", "a", "c", "h", SP, "o", "u", "t", SP, "t", "o", SP, "y", "o",
      "u", "r", SP, "l", "o", "c", "a", "l", SP, "h", "o", "s", "p", "i",
      "t", "a", "l", COMMA, SP, "p", "r", "i", "m", "a", "r", "y", "-", "c",
      "a", "r", "e", SP, "c", "l", "i", "n", "i", "c", COMMA, SP, "o", "r",
      SP, "9", "8", "8", SP, "f", "o", "r", SP, "g", "u", "i", "d", "a", "n",
      "c", "e", ".">>

AskForZipText ==
    <<LF, LF, "-", "-", "-", LF, LF, "I", "f", SP, "y", "o", "u", SP, "f",
      "e", "e", "l", SP, "c", "o", "m", "f", "o", "r", "t", "a", "b", "l",
      "e", SP, "a", "n", "d", SP, "i", "t", RSQUO, "s", SP, "s", "a", "f",
      "e", COMMA, SP, "y", "o", "u", SP, "c", "a", "n", SP, "s", "h", "a",
      "r", "e", SP, "y", "o", "u", "r", SP, "*", "*", "Z", "I", "P", SP, "o",
      "r", SP, "p", "o", "s", "t", "a", "l", SP, "c", "o", "d", "e", "*",
      "*", SP, "h", "e", "r", "e", ".", SP, "O", "n", SP, "y", "o", "u", "r",
      SP, "n", "e", "x", "t", SP, "m", "e", "s", "s", "a", "g", "e", COMMA,
      SP, "I", SP, "c", "a", "n", SP, "u", "s", "e", SP, "i", "t", SP, "t",
      "o", SP, "l", "o", "o", "k", SP, "u", "p", SP, "n", "e", "a", "r", "b",
      "y", SP, "c", "o", "u", "n", "s", "e", "l", "i", "n", "g", SP, "o",
      "r", SP, "m", "e", "n", "t", "a", "l", "-", "h", "e", "a", "l", "t",
      "h", SP, "c", "e", "n", "t", "e", "r", "s", SP, "s", "o", SP, "y", "o",
      "u", SP, "h", "a", "v", "e", SP, "m", "o", "r", "e", SP, "o", "p", "t",
      "i", "o", "n", "s", SP, "c", "l", "o", "s", "e", SP, "t", "o", SP, "w",
      "h", "e", "r", "e", SP, "y", "o", "u", SP, "a", "r", "e", ".", LF, LF,
      "I", "f", SP, "y", "o", "u", SP, "d", "o", "n", RSQUO, "t", SP, "w",
      "a", "n", "t", SP, "t", "o", SP, "s", "h", "a", "r", "e", SP, "t", "h",
      "a", "t", COMMA, SP, "i", "t", RSQUO, "s", SP, "c", "o", "m", "p", "l",
      "e", "t", "e", "l", "y", SP, "o", "k", "a", "y", SP, EMDASH, SP, "y",
      "o", "u", SP, "c", "a", "n", SP, "s", "t", "i", "l", "l", SP, "c", "o",
      "n", "t", "a", "c", "t", SP, "9", "8", "8", SP, "o", "r", SP, "y", "o",
      "u", "r", SP, "l", "o", "c", "a", "l", SP, "e", "m", "e", "r", "g",
      "e", "n", "c", "y", SP, "s", "e", "r", "v", "i", "c", "e", "s", SP,
      "d", "i", "r", "e", "c", "t", "l", "y", ".">>

SafetyTail ==
    <<LF, LF, "-", "-", "-", LF, LF, "T", "h", "i", "s", SP, "s", "p", "a",
      "c", "e", SP, "i", "s", SP, "o", "n", "l", "y", SP, "f", "o", "r", SP,
      "s", "u", "p", "p", "o", "r", "t", SP, "a", "n", "d", SP, "i", "n",
      "f", "o", "r", "m", "a", "t", "i", "o", "n", ".", SP, "I", "t", SP,
      "c", "a", "n", "n", "o", "t", SP, "r", "e", "p", "l", "a", "c", "e",
      SP, "c", "a", "r", "e", SP, "f", "r", "o", "m", SP, "a", SP, "r", "e",
      "a", "l", SP, "d", "o", "c", "t", "o", "r", COMMA, SP, "t", "h", "e",
      "r", "a", "p", "i", "s", "t", COMMA, SP, "o", "r", SP, "c", "r", "i",
      "s", "i", "s", SP, "t", "e", "a", "m", ".", SP, "I", "f", SP, "y", "o",
      "u", "r", SP, "t", "h", "o", "u", "g", "h", "t", "s", SP, "o", "f", SP,
      "s", "e", "l", "f", "-", "h", "a", "r", "m", SP, "g", "e", "t", SP,
      "s", "t", "r", "o", "n", "g", "e", "r", COMMA, SP, "p", "l", "e", "a",
      "s", "e", SP, "r", "e", "a", "c", "h", SP, "o", "u", "t", SP, "t", "o",
      SP, "*", "*", "9", "8", "8", "*", "*", COMMA, SP, "y", "o", "u", "r",
      SP, "l", "o", "c", "a", "l", SP, "c", "r", "i", "s", "i", "s", SP, "l",
      "i", "n", "e", COMMA, SP, "o", "r", SP, "e", "m", "e", "r", "g", "e",
      "n", "c", "y", SP, "s", "e", "r", "v", "i", "c", "e", "s", SP, "r",
      "i", "g", "h", "t", SP, "a", "w", "a", "y", ".">>

\* the block built around the resources found for zip
LocalResourcesBlock(zip, resources_markdown) ==
    <<LF, LF, "-", "-", "-", LF, LF, "#", "#", "#", SP, "N", "e", "a", "r",
      "b", "y", SP, "m", "e", "n", "t", "a", "l", "-", "h", "e", "a", "l",
      "t", "h", SP, "r", "e", "s", "o", "u", "r", "c", "e", "s", SP, "a",
      "r", "o", "u", "n", "d", SP, "Z", "I", "P", SP, BT>> \o zip \o
    <<BT, LF, LF>> \o resources_markdown \o <<LF>>

\* the characters the regex class \w matches
WordChars ==
    Digits \cup {"_"} \cup {LowerLetters[i] : i \in 1..Len(LowerLetters)}
           \cup {UpperLetters[i] : i \in 1..Len(UpperLetters)}

AllDigits(s, i, j) == j <= Len(s) /\ \A k \in i..j : s[k] \in Digits

\* the word boundary after the digit at index j
BoundaryAfter(s, j) == j = Len(s) \/ s[j + 1] \notin WordChars

\* length of the match of _ZIP_REGEX that starts at index i, 0 when there is
\* none: five digits after a word boundary, then the four-digit extension if
\* it fits, a word boundary at the end
ZipMatchAt(s, i) ==
    IF ~(AllDigits(s, i, i + 4) /\ (i = 1 \/ s[i - 1] \notin WordChars)) THEN 0
    ELSE IF /\ i + 5 <= Len(s)
            /\ s[i + 5] = "-"
            /\ AllDigits(s, i + 6, i + 9)
            /\ BoundaryAfter(s, i + 9)
         THEN 10
    ELSE IF BoundaryAfter(s, i + 4) THEN 5
    ELSE 0

\* _ZIP_REGEX.search(t): the leftmost match, NoText (None) when there is none
ZipSearch(s) ==
    LET starts == {i \in 1..Len(s) : ZipMatchAt(s, i) > 0} IN
    IF starts = {} THEN NoText
    ELSE SubSeq(s, Min(starts), Min(starts) + ZipMatchAt(s, Min(starts)) - 1)

\* _extract_zip_from_text(*texts): the first match in the first text that has
\* one; empty texts and None are skipped
RECURSIVE ExtractZip(_)
ExtractZip(texts) ==
    IF texts = <<>> THEN NoText
    ELSE IF Head(texts) = NoText \/ Head(texts) = <<>> THEN ExtractZip(Tail(texts))
    ELSE IF ZipSearch(Head(texts)) # NoText THEN ZipSearch(Head(texts))
    ELSE ExtractZip(Tail(texts))

\* "\n".join(xs)
RECURSIVE JoinLines(_)
JoinLines(xs) ==
    IF xs = <<>> THEN <<>>
    ELSE IF Len(xs) = 1 THEN xs[1]
    ELSE xs[1] \o <<LF>> \o JoinLines(Tail(xs))

\* the labels _classify_crisis_level tests against
LabelCrisis == <<"C", "R", "I", "S", "I", "S">>
LabelDistress == <<"D", "I", "S", "T", "R", "E", "S", "S">>
LabelSafe == <<"S", "A", "F", "E">>
RiskLabels == {LabelCrisis, LabelDistress, LabelSafe}

\* the pieces of the texts a ZIP code is looked for in
MaxZipPieces == 3

ZipPieces ==
    {<<"0", "2", "1", "3", "9">>, <<"6", "7", "8", "9">>, <<"-">>, <<"a">>,
     <<SP>>, <<"1">>}

RECURSIVE ZipTexts(_)
ZipTexts(n) ==
    IF n = 0 THEN {<<>>}
    ELSE ZipTexts(n - 1) \cup {txt \o p : txt \in ZipTexts(n - 1), p \in ZipPieces}

\* the replies of the classification call; NoText is a message whose content
\* is None
LabelReplies ==
    {LabelCrisis, LabelDistress, LabelSafe,
     <<SP, "c", "r", "i", "s", "i", "s", LF>>, LabelCrisis \o <<".">>,
     <<"I", "t", SP, "i", "s", SP>> \o LabelCrisis, <<>>, NoText}

\* what the actions of the support bot leave alone
outside_support ==
    <<bot, extractor_vars, attempt, requests, last_error, raw, errors, prev,
      calls, client, lazy_client, built, getters, session, trace, chosen_bot,
      memory>>

\* generate_support_message(mode, brief_context_text, user_input,
\* memory_snippets): memory_snippets = memory_snippets or []
CallSupport ==
    /\ pc = "idle"
    /\ \E ui \in ZipTexts(MaxZipPieces),
          ctx \in {<<>>, <<"z", "i", "p", SP, "9", "4", "1", "1", "0">>},
          mem \in {NoText, << <<"a">>, <<"0", "2", "1", "3", "9", "-", "6", "7", "8", "9">> >>} :
          frame' = [fn |-> "generate_support_message",
                    user_input |-> ui,
                    brief_context_text |-> ctx,
                    memory_snippets |-> IF mem = NoText THEN <<>> ELSE mem,
                    reply |-> Unbound,
                    risk_level |-> Unbound,
                    branch |-> "none",
                    zip_code |-> Unbound,
                    local_resources_block |-> <<>>,
                    ask_for_zip_block |-> <<>>]
    /\ caller' = "support"
    /\ result' = NoResult
    /\ pc' = "classify"
    /\ UNCHANGED outside_support

\* _classify_crisis_level: the completion returns; label =
\* content.strip().upper(), replaced by SAFE when it is not one of the three
ClassifyReturns ==
    /\ caller = "support"
    /\ pc = "classify"
    /\ \E content \in LabelReplies :
          IF content = NoText
          THEN /\ result' = [kind |-> "AttributeError", val |-> Null, cause |-> "None"]
               /\ frame' = [frame EXCEPT !.reply = content]
               /\ pc' = "gen_raised"
          ELSE LET label == Upper(Strip(content)) IN
               /\ frame' = [frame EXCEPT
                               !.reply = content,
                               !.risk_level = IF label \notin RiskLabels
                                              THEN LabelSafe ELSE label]
               /\ pc' = "branch"
               /\ UNCHANGED result
    /\ UNCHANGED <<outside_support, caller>>

\* _classify_crisis_level: the completion call raises
ClassifyFails ==
    /\ caller = "support"
    /\ pc = "classify"
    /\ result' = [kind |-> "APIError", val |-> Null, cause |-> "None"]
    /\ pc' = "gen_raised"
    /\ UNCHANGED <<outside_support, caller, frame>>

\* if risk_level == "CRISIS": the crisis builder, else the standard builder
SupportBranch ==
    /\ caller = "support"
    /\ pc = "branch"
    /\ IF frame.risk_level = LabelCrisis
       THEN frame' = [frame EXCEPT !.branch = "crisis"] /\ pc' = "crisis_zip"
       ELSE frame' = [frame EXCEPT !.branch = "standard"] /\ pc' = "standard"
    /\ UNCHANGED <<outside_support, caller, result>>

\* _build_standard_support_message: one completion, its text or its exception
StandardSupport ==
    /\ caller = "support"
    /\ pc = "standard"
    /\ \/ /\ result' = [kind |-> "APIError", val |-> Null, cause |-> "None"]
          /\ pc' = "gen_raised"
       \/ \E out \in {<<"s", LF>>, NoText} :
             /\ result' = [kind |-> "value", val |-> Str(RawOf(out)), cause |-> "None"]
             /\ pc' = "gen_returned"
    /\ UNCHANGED <<outside_support, caller, frame>>

\* memory_text = "\n".join(memory_snippets or []);
\* zip_code = _extract_zip_from_text(user_input, pdf_text, memory_text)
CrisisExtractZip ==
    /\ caller = "support"
    /\ pc = "crisis_zip"
    /\ frame' = [frame EXCEPT !.zip_code =
                    ExtractZip(<<frame.user_input, frame.brief_context_text,
                                 JoinLines(frame.memory_snippets)>>)]
    /\ pc' = "crisis_blocks"
    /\ UNCHANGED <<outside_support, caller, result>>

\* mutant: the invitation to share a ZIP code is added in every case
AskForZipBlock_Always(zip) == AskForZipText

\* the else branch of "if zip_code"
AskForZipBlock(zip) == IF zip = NoText THEN AskForZipText ELSE <<>>

\* the "if zip_code" statement: with a ZIP the web search gives resources,
\* an empty text, or raises; without one the user is invited to share it
CrisisBlocks ==
    /\ caller = "support"
    /\ pc = "crisis_blocks"
    /\ LET zip == frame.zip_code IN
       \E found \in {"text", "empty", "raises"} :
          frame' = [frame EXCEPT
              !.local_resources_block =
                  IF zip = NoText THEN <<>>
                  ELSE IF found = "text"
                       THEN LocalResourcesBlock(zip, RawOf(<<"-", SP, "c", LF>>))
                  ELSE IF found = "empty" THEN <<>>
                  ELSE LookupFailedBlock,
              !.ask_for_zip_block = AskForZipBlock(zip)]
    /\ pc' = "crisis_return"
    /\ UNCHANGED <<outside_support, caller, result>>

\* return crisis_header + local_resources_block + ask_for_zip_block + safety_tail
CrisisReturn ==
    /\ caller = "support"
    /\ pc = "crisis_return"
    /\ result' = [kind |-> "value",
                  val |-> Str(CrisisHeader \o frame.local_resources_block
                              \o frame.ask_for_zip_block \o SafetyTail),
                  cause |-> "None"]
    /\ pc' = "gen_returned"
    /\ UNCHANGED <<outside_support, caller, frame>>

InitSupport == bot = "support" /\ Idle

NextSupport ==
    \/ CallSupport
    \/ ClassifyReturns
    \/ ClassifyFails
    \/ SupportBranch
    \/ StandardSupport
    \/ CrisisExtractZip
    \/ CrisisBlocks
    \/ CrisisReturn

SpecSupport == InitSupport /\ [][NextSupport]_vars

\* the crisis builder has returned
CrisisReturned ==
    caller = "support" /\ pc = "gen_returned" /\ frame.branch = "crisis"

\* C26: the crisis message always carries the safety text. Every value the
\* crisis builder returns starts with the crisis header and ends with the
\* safety tail, with or without a ZIP code and whether the resource search
\* gave text, nothing or an exception; the local-resources block and the
\* ask-for-ZIP block are never both present.
C26_SafetyText ==
    CrisisReturned =>
        /\ StartsWith(result.val.v, CrisisHeader)
        /\ EndsWith(result.val.v, SafetyTail)
        /\ Len(result.val.v) >= Len(CrisisHeader) + Len(SafetyTail)
        /\ result.val.v = CrisisHeader \o frame.local_resources_block
                          \o frame.ask_for_zip_block \o SafetyTail
        /\ ~(frame.local_resources_block # <<>> /\ frame.ask_for_zip_block # <<>>)
        /\ frame.ask_for_zip_block # <<>> => frame.zip_code = NoText
        /\ frame.local_resources_block # <<>> => frame.zip_code # NoText

\* C26 witness: a ZIP code came from the memory snippets, the search raised,
\* and the message holds the failure note between header and tail
C26_Witness ==
    /\ CrisisReturned
    /\ ZipSearch(frame.user_input) = NoText
    /\ frame.zip_code = <<"0", "2", "1", "3", "9", "-", "6", "7", "8", "9">>
    /\ frame.local_resources_block = LookupFailedBlock

\* C26 witness without a ZIP code: the invitation stands between header and tail
C26_WitnessNoZip ==
    /\ CrisisReturned
    /\ frame.zip_code = NoText
    /\ result.val.v = CrisisHeader \o AskForZipText \o SafetyTail

\* C27: crisis classification is total. _classify_crisis_level returns
\* CRISIS, DISTRESS or SAFE for every reply of the model, any reply that is
\* not one of the three labels giving SAFE, and generate_support_message
\* takes the crisis branch exactly when the label is CRISIS.
C27_TotalClassification ==
    caller = "support" =>
        /\ (pc = "gen_raised" /\ frame.reply # Unbound) => frame.branch # "none"
        /\ pc \notin {"classify", "gen_raised"} => frame.risk_level \in RiskLabels
        /\ (frame.reply # Unbound /\ frame.risk_level # Unbound
              /\ Upper(Strip(frame.reply)) \notin RiskLabels)
              => frame.risk_level = LabelSafe
        /\ frame.branch = "crisis" => frame.risk_level = LabelCrisis
        /\ frame.branch = "standard" => frame.risk_level # LabelCrisis

\* ------------------------------------------------ search_meds_knowledge
\* (src/app/bots/meds_rag_search.py)
KeyAnswer ==
    <<"a", "n", "s", "w", "e", "r">>
KeyChunks ==
    <<"c", "h", "u", "n", "k", "s">>
KeyRank ==
    <<"r", "a", "n", "k">>
KeyScore ==
    <<"s", "c", "o", "r", "e">>
KeySource ==
    <<"s", "o", "u", "r", "c", "e">>
KeyDocId ==
    <<"d", "o", "c", "_", "i", "d">>
KeySnippet ==
    <<"s", "n", "i", "p", "p", "e", "t">>

DefaultSource ==
    <<"u", "n", "k", "n", "o", "w", "n", "_", "s", "o", "u", "r", "c", "e">>

DigitChars == <<"0", "1", "2", "3", "4", "5", "6", "7", "8", "9">>

DigitValue(c) == (CHOOSE i \in 1..10 : DigitChars[i] = c) - 1

\* the integer a sequence of digits writes
RECURSIVE DigitsToInt(_)
DigitsToInt(ds) ==
    IF ds = <<>> THEN 0
    ELSE 10 * DigitsToInt(SubSeq(ds, 1, Len(ds) - 1)) + DigitValue(ds[Len(ds)])

\* str(n) for 0 <= n < 100
IntToDigits(n) ==
    IF n < 10 THEN <<DigitChars[n + 1]>>
    ELSE <<DigitChars[(n \div 10) + 1], DigitChars[(n % 10) + 1]>>

\* Python values that JSON does not have: an int, and a float kept in
\* hundredths
PyInt(n) == [t |-> "int", v |-> n]
PyFloat(h) == [t |-> "float", v |-> h]

Converted(x) == [ok |-> TRUE, val |-> x, error |-> "None"]
NotConverted(e) == [ok |-> FALSE, val |-> Null, error |-> e]

IsNumeral(cs) == Strip(cs) # <<>> /\ \A i \in 1..Len(Strip(cs)) : Strip(cs)[i] \in Digits

\* int(x): a number or a boolean converts, a string converts when it is a
\* numeral and raises ValueError otherwise, anything else raises TypeError
ToInt(x) ==
    IF x.t = "num" THEN Converted(PyInt(DigitsToInt(x.v)))
    ELSE IF x.t = "int" THEN Converted(x)
    ELSE IF x.t = "bool" THEN Converted(PyInt(IF x.v THEN 1 ELSE 0))
    ELSE IF x.t = "str"
         THEN IF IsNumeral(x.v) THEN Converted(PyInt(DigitsToInt(Strip(x.v))))
              ELSE NotConverted("ValueError")
    ELSE NotConverted("TypeError")

\* float(x), in hundredths
ToFloat(x) ==
    IF x.t = "float" THEN Converted(x)
    ELSE IF ToInt(x).ok THEN Converted(PyFloat(100 * ToInt(x).val.v))
    ELSE NotConverted(ToInt(x).error)

\* str(x) for a string, a number and None
ToStr(x) ==
    IF x.t = "str" THEN x
    ELSE IF x.t = "num" THEN Str(x.v)
    ELSE IF x.t = "int" THEN Str(IntToDigits(x.v))
    ELSE Str(<<"N", "o", "n", "e">>)

\* c.get(k, d)
Get(c, k, d) == IF k \in DOMAIN c.v THEN c.v[k] ELSE d

\* the dict built for chunk c at index i (from 0) of data["chunks"], or the
\* exception of the first conversion that fails
NormalizeChunk(c, i) ==
    LET rank  == ToInt(Get(c, KeyRank, PyInt(i + 1)))
        score == ToFloat(Get(c, KeyScore, PyFloat(100 - 5 * i)))
    IN  IF ~rank.ok THEN NotConverted(rank.error)
        ELSE IF ~score.ok THEN NotConverted(score.error)
        ELSE Converted(Obj(
                 (KeyRank :> rank.val) @@ (KeyScore :> score.val)
                 @@ (KeySource :> ToStr(Get(c, KeySource, Str(DefaultSource))))
                 @@ (KeyDocId :> ToStr(Get(c, KeyDocId,
                        Str(<<"d", "o", "c", "_">> \o IntToDigits(i + 1)))))
                 @@ (KeySnippet :> ToStr(Get(c, KeySnippet, Str(<<>>))))))

\* the loop over enumerate(data["chunks"]) from index i (from 0): entries that
\* are not dicts are skipped
RECURSIVE NormalizeChunks(_, _, _)
NormalizeChunks(cs, i, acc) ==
    IF i >= Len(cs) THEN Converted(Arr(acc))
    ELSE IF cs[i + 1].t # "obj" THEN NormalizeChunks(cs, i + 1, acc)
    ELSE LET n == NormalizeChunk(cs[i + 1], i) IN
         IF ~n.ok THEN n ELSE NormalizeChunks(cs, i + 1, Append(acc, n.val))

\* the two "ensure keys" statements: on a dict they set missing or ill-typed
\* members; on a list or a string the membership test passes and the item
\* access raises TypeError; on a number, a boolean or None the membership
\* test itself raises TypeError
EnsureKeys(data, txt) ==
    IF data.t # "obj" THEN NotConverted("TypeError")
    ELSE LET d1 == IF KeyAnswer \notin DOMAIN data.v \/ data.v[KeyAnswer].t # "str"
                   THEN Obj((KeyAnswer :> Str(txt)) @@ data.v) ELSE data
         IN  Converted(IF KeyChunks \notin DOMAIN d1.v \/ d1.v[KeyChunks].t # "arr"
                       THEN Obj((KeyChunks :> Arr(<<>>)) @@ d1.v) ELSE d1)

\* json.loads(text), or the fallback dict of the except clause
LoadOrFallback(txt) ==
    IF JsonLoads(txt).ok THEN JsonLoads(txt).val
    ELSE Obj((KeyAnswer :> Str(txt)) @@ (KeyChunks :> Arr(<<>>)))

\* the texts of the values a chunk member is given
ChunkFieldTexts ==
    {<<"1">>, Quoted(<<"2">>), Quoted(<<"x">>), <<"n", "u", "l", "l">>,
     <<LBRACK, RBRACK>>, <<"t", "r", "u", "e">>}

MemberText(k, vtxt) == Quoted(k) \o <<COLON, SP>> \o vtxt

\* chunks with a rank, a score, both or neither
ChunkTexts ==
    {<<LBRACE, RBRACE>>}
    \cup {<<LBRACE>> \o MemberText(KeyRank, r) \o <<RBRACE>> : r \in ChunkFieldTexts}
    \cup {<<LBRACE>> \o MemberText(KeyScore, sc) \o <<COMMA, SP>>
          \o MemberText(KeySnippet, Quoted(<<"t">>)) \o <<RBRACE>> :
             sc \in ChunkFieldTexts}
    \cup {<<LBRACE>> \o MemberText(KeyRank, r) \o <<COMMA>>
          \o MemberText(KeyScore, sc) \o <<COMMA>>
          \o MemberText(KeySource, Quoted(<<"s">>)) \o <<COMMA>>
          \o MemberText(KeyDocId, <<"7">>) \o <<RBRACE>> :
             r \in {<<"1">>, Quoted(<<"2">>)}, sc \in {<<"1">>, <<"n", "u", "l", "l">>}}

AnswerMember == MemberText(KeyAnswer, Quoted(<<"a">>))

\* the texts the model returns: objects with chunks, objects with missing or
\* ill-typed members, JSON that is not an object, and text that is not JSON
RagReplies ==
    {<<LBRACE>> \o AnswerMember \o <<COMMA, SP>>
     \o MemberText(KeyChunks, <<LBRACK>> \o c \o <<RBRACK>>) \o <<RBRACE>> :
        c \in ChunkTexts}
    \cup {<<LBRACE>> \o MemberText(KeyChunks,
             <<LBRACK, "5", COMMA, SP>> \o c \o <<COMMA>> \o Quoted(<<"x">>)
             \o <<RBRACK>>) \o <<RBRACE>> : c \in ChunkTexts}
    \cup {<<LBRACE, RBRACE>>,
          <<LBRACE>> \o MemberText(KeyAnswer, <<"5">>) \o <<RBRACE>>,
          <<LBRACE>> \o AnswerMember \o <<COMMA>>
             \o MemberText(KeyChunks, <<LBRACE, RBRACE>>) \o <<RBRACE>>,
          <<LBRACK, RBRACK>>, <<LBRACK>> \o Quoted(KeyAnswer) \o <<RBRACK>>,
          <<"5">>, Quoted(KeyAnswer), Quoted(<<"a">>), <<"n", "u", "l", "l">>,
          <<"t", "r", "u", "e">>, <<"a">>, <<LBRACE>> \o AnswerMember, <<>>,
          NoText}

outside_meds_rag ==
    <<bot, attempt, requests, last_error, raw, errors, prev, calls, client,
      lazy_client, built, getters, session, trace, chosen_bot, memory, arg,
      json_text, searched, parses, report>>

\* search_meds_knowledge(query, top_k, vector_store_id): ValueError when
\* vector_store_id is None or empty
CallMedsSearch ==
    /\ pc = "idle"
    /\ caller' = "meds_rag"
    /\ text' = <<>>
    /\ outcome' = NoOutcome
    /\ \E vs \in {NoText, <<>>, <<"v", "s">>} :
          /\ frame' = [fn |-> "search_meds_knowledge", vector_store_id |-> vs]
          /\ IF vs = NoText \/ vs = <<>>
             THEN /\ result' = [kind |-> "ValueError", val |-> Null, cause |-> "None"]
                  /\ pc' = "gen_raised"
             ELSE /\ result' = NoResult
                  /\ pc' = "request"
    /\ UNCHANGED outside_meds_rag

\* client.responses.create(...) returns: text = (output_text or "").strip()
MedsCompletionReturns ==
    /\ caller = "meds_rag"
    /\ pc = "request"
    /\ \E out \in RagReplies : text' = RawOf(out)
    /\ pc' = "rag_parse"
    /\ UNCHANGED <<outside_meds_rag, caller, frame, outcome, result>>

\* client.responses.create(...) raises
MedsCompletionFails ==
    /\ caller = "meds_rag"
    /\ pc = "request"
    /\ result' = [kind |-> "APIError", val |-> Null, cause |-> "None"]
    /\ pc' = "gen_raised"
    /\ UNCHANGED <<outside_meds_rag, caller, frame, outcome, text>>

\* data = json.loads(text), or the fallback dict
MedsParse ==
    /\ caller = "meds_rag"
    /\ pc = "rag_parse"
    /\ outcome' = Returned(LoadOrFallback(text))
    /\ pc' = "rag_keys"
    /\ UNCHANGED <<outside_meds_rag, caller, frame, text, result>>

\* the two "ensure keys" statements
MedsEnsureKeys ==
    /\ caller = "meds_rag"
    /\ pc = "rag_keys"
    /\ LET r == EnsureKeys(outcome.val, text) IN
       IF r.ok
       THEN outcome' = Returned(r.val) /\ pc' = "rag_chunks" /\ UNCHANGED result
       ELSE /\ result' = [kind |-> r.error, val |-> Null, cause |-> "None"]
            /\ pc' = "gen_raised"
            /\ UNCHANGED outcome
    /\ UNCHANGED <<outside_meds_rag, caller, frame, text>>

\* the normalisation loop; data["chunks"] = norm_chunks; return data
MedsNormalize ==
    /\ caller = "meds_rag"
    /\ pc = "rag_chunks"
    /\ LET r == NormalizeChunks(outcome.val.v[KeyChunks].v, 0, <<>>) IN
       IF r.ok
       THEN /\ result' = [kind |-> "value",
                          val |-> Obj((KeyChunks :> r.val) @@ outcome.val.v),
                          cause |-> "None"]
            /\ pc' = "gen_returned"
       ELSE /\ result' = [kind |-> r.error, val |-> Null, cause |-> "None"]
            /\ pc' = "gen_raised"
    /\ UNCHANGED <<outside_meds_rag, caller, frame, text, outcome>>

InitMedsRag == bot = "meds_rag_search" /\ Idle

NextMedsRag ==
    \/ CallMedsSearch
    \/ MedsCompletionReturns
    \/ MedsCompletionFails
    \/ MedsParse
    \/ MedsEnsureKeys
    \/ MedsNormalize

SpecMedsRag == InitMedsRag /\ [][NextMedsRag]_vars

\* a chunk of the documented shape
IsChunk(c) ==
    /\ c.t = "obj"
    /\ DOMAIN c.v = {KeyRank, KeyScore, KeySource, KeyDocId, KeySnippet}
    /\ c.v[KeyRank].t = "int"
    /\ c.v[KeyScore].t = "float"
    /\ c.v[KeySource].t = "str"
    /\ c.v[KeyDocId].t = "str"
    /\ c.v[KeySnippet].t = "str"

\* C29: medication RAG result shape. With a vector_store_id, for every text
\* the model returns the function returns a mapping whose "answer" is a
\* string and whose "chunks" is a list of chunks of the documented shape;
\* ValueError is raised only when vector_store_id is missing, and no other
\* exception comes from the text.
C29_ResultShape ==
    caller = "meds_rag" =>
        /\ (pc = "gen_raised" /\ result.kind # "APIError") =>
              /\ result.kind = "ValueError"
              /\ frame.vector_store_id \in {NoText, <<>>}
        /\ pc = "gen_returned" =>
              /\ result.val.t = "obj"
              /\ KeyAnswer \in DOMAIN result.val.v
              /\ result.val.v[KeyAnswer].t = "str"
              /\ KeyChunks \in DOMAIN result.val.v
              /\ result.val.v[KeyChunks].t = "arr"
              /\ \A i \in 1..Len(result.val.v[KeyChunks].v) :
                    IsChunk(result.val.v[KeyChunks].v[i])

\* ------------------------------------------------ _chunk_text
\* (src/app/rag/ingest.py, and its copy chunk_text in src/mediexplain_rag_app.py)
ChunkSize == 1000
ChunkOverlap == 200

\* the longest text that is chunked
MaxTextLen == 3300

\* a text whose character at position p is p itself, so that a chunk shows
\* which positions it holds
Positions == [p \in 1..MaxTextLen |-> p]

TextOfLength(n) == SubSeq(Positions, 1, n)

\* the lengths tried: around every multiple of 100
TextLengths == {n \in 0..MaxTextLen : n % 100 \in {0, 1, 99}}

\* text[start:end] for 0 <= start <= end
Slice(txt, start, end) == SubSeq(txt, start + 1, Min({end, Len(txt)}))

\* mutant: the next chunk starts where this one ended
NextStart_NoOverlap(end) == end

\* start = end - CHUNK_OVERLAP; if start < 0: start = 0
NextStart(end) == IF end - ChunkOverlap < 0 THEN 0 ELSE end - ChunkOverlap

outside_chunking ==
    <<bot, caller, extractor_vars, attempt, requests, last_error, raw, errors,
      prev, calls, client, lazy_client, built, getters, session, trace,
      chosen_bot, memory>>

\* _chunk_text(text): chunks = []; start = 0; length = len(text)
CallChunkText ==
    /\ pc = "idle"
    /\ \E n \in TextLengths :
          frame' = [fn |-> "_chunk_text", text |-> TextOfLength(n),
                    chunks |-> <<>>, start |-> 0, length |-> n]
    /\ result' = NoResult
    /\ pc' = "chunk_loop"
    /\ UNCHANGED outside_chunking

\* one pass of the while loop
ChunkStep ==
    /\ pc = "chunk_loop"
    /\ frame.start < frame.length
    /\ LET end == frame.start + ChunkSize IN
       frame' = [frame EXCEPT
                    !.chunks = Append(@, Slice(frame.text, frame.start, end)),
                    !.start = NextStart(end)]
    /\ UNCHANGED <<outside_chunking, pc, result>>

\* the loop condition fails: return chunks
ChunkReturn ==
    /\ pc = "chunk_loop"
    /\ ~(frame.start < frame.length)
    /\ result' = [kind |-> "value", val |-> Arr(frame.chunks), cause |-> "None"]
    /\ pc' = "gen_returned"
    /\ UNCHANGED <<outside_chunking, frame>>

InitChunking == bot \in {"rag_ingest", "rag_app"} /\ Idle

NextChunking == CallChunkText \/ ChunkStep \/ ChunkReturn

SpecChunking == InitChunking /\ [][NextChunking]_vars

ChunksReturned == frame.fn = "_chunk_text" /\ pc = "gen_returned"

\* C30: chunking terminates and covers the text. Every pass of the loop moves
\* start forward, so the loop ends; each chunk has at most 1000 characters,
\* chunk i starts at offset 800*i, every position of the text lies in a
\* chunk, consecutive full chunks share 200 characters, and the empty text
\* gives no chunk.
C30_ChunksCover ==
    /\ [][(frame.fn = "_chunk_text" /\ pc = "chunk_loop" /\ pc' = "chunk_loop")
            => (frame'.start > frame.start /\ frame'.start <= frame.length + 800)]_vars
    /\ [](ChunksReturned =>
          LET cs == result.val.v
              n  == frame.length IN
          /\ \A i \in 1..Len(cs) :
                /\ Len(cs[i]) <= 1000
                /\ Len(cs[i]) >= 1
                /\ cs[i][1] = 800 * (i - 1) + 1
                /\ \A j \in 1..Len(cs[i]) : cs[i][j] = 800 * (i - 1) + j
          /\ \A p \in 1..n :
                /\ ((p - 1) \div 800) + 1 <= Len(cs)
                /\ cs[((p - 1) \div 800) + 1][p - 800 * ((p - 1) \div 800)] = p
          /\ \A i \in 1..(Len(cs) - 1) :
                (Len(cs[i]) = 1000 /\ Len(cs[i + 1]) = 1000)
                   => SubSeq(cs[i], 801, 1000) = SubSeq(cs[i + 1], 1, 200)
          /\ (n = 0 <=> cs = <<>>))

\* C30 witness: a text of 2601 characters gave four chunks, the first three
\* full and the last of 201 characters
C30_Witness ==
    /\ ChunksReturned
    /\ frame.length = 2601
    /\ Len(result.val.v) = 4
    /\ Len(result.val.v[3]) = 1000
    /\ Len(result.val.v[4]) = 201

====
